---- MODULE Spec2Model ----
(***************************************************************************)
(* Debarcer: the pileup consensus engine of src/generate_consensus.py.     *)
(*                                                                         *)
(* Python strings are TLA+ strings (Len, \o and SubSeq act on them), a     *)
(* Python tuple is a TLA+ tuple, a dict whose iteration order reaches no   *)
(* result is a function, and a dict whose iteration order does reach a     *)
(* result (the alleles of one family bucket, the positions of one UMI) is  *)
(* a sequence of its items in insertion order.                             *)
(***************************************************************************)
EXTENDS Integers, Sequences, FiniteSets, TLC

VARIABLES
    call,   \* the arguments a function under study is applied to
    ret,    \* <<>> before the function returned, <<value>> after
    \* ---- the arguments of generate_consensus_output
    family_sizes,         \* fam_size.split(','), as integers
    pos_threshold,
    consensus_threshold,
    count_threshold,
    truncate,
    \* ---- the pileup iterator
    pc,                   \* "pileup" while columns are read, then "done"
    column,               \* <<>> before the first column, else <<reference_pos>>
    nreads,               \* pileup reads handed out so far
    \* ---- the locals of get_consensus_seq, one copy per family size f >= 1
    collapsed,            \* f -> [consensus_seq, FamSize, raised]
    \* ---- the locals of get_uncollapsed_seq
    uncollapsed,          \* [uncollapsed_seq, covArray, read_count, bound, raised]
    \* ---- what generate_consensus_output leaves behind
    cons_data,            \* f -> pos -> entry, the views computed
    consfile,             \* the rows of Consfiles/<region>.cons (<<>>: not opened)
    covstats,             \* the entries of Stats/CoverageStats.yml
    exception,            \* "" or the exception that ended the run
    \* ---- the region workers that share one output directory
    procs,                \* worker -> [pc, region, coverage, table, buffer]
    StatsDir,             \* os.path.isdir(StatsDir)
    \* ---- the locals and the output of get_vcf_output
    vcf                   \* <<>>, or [pc, line, temp, lists, data, records];
                          \* pc is the exception when the function raised

pure_vars == <<call, ret>>
args_vars == <<family_sizes, pos_threshold, consensus_threshold, count_threshold,
               truncate>>
pileup_vars == <<pc, column, nreads, collapsed, uncollapsed>>
out_vars == <<cons_data, consfile, covstats, exception>>
worker_vars == <<procs, StatsDir>>
vars == <<pure_vars, args_vars, pileup_vars, out_vars, worker_vars, vcf>>

----------------------------------------------------------------------------
(* Bounds of the inputs.                                                   *)

\* Reference positions handed to find_closest are 0..MaxPos.
MaxPos == 3
\* The longest list of (position, count) families of one UMI.
MaxFams == 3
\* The largest read count of one family.
MaxCount == 2

----------------------------------------------------------------------------
(* Helpers that stand for Python built-ins.                                *)

Abs(x) == IF x < 0 THEN -x ELSE x

Min(S) == CHOOSE x \in S : \A y \in S : x <= y

RECURSIVE SumSeq(_)
SumSeq(s) == IF s = <<>> THEN 0 ELSE s[1] + SumSeq(Tail(s))

\* list.sort(key=lambda x: x[0]): Python's sort is stable, so an item goes
\* behind every item of the same key that stood before it.
RECURSIVE SortOnCount(_)
SortOnCount(s) ==
    IF s = <<>> THEN <<>>
    ELSE LET rest == SortOnCount(SubSeq(s, 1, Len(s) - 1))
             x == s[Len(s)]
             n == Cardinality({i \in DOMAIN rest : rest[i][1] <= x[1]})
         IN SubSeq(rest, 1, n) \o <<x>> \o SubSeq(rest, n + 1, Len(rest))

----------------------------------------------------------------------------
(* find_closest(pos, L): L is the list of (position, count) of the         *)
(* families of one UMI.  Returns (smallest distance, count, position).     *)

\* The mutant: D[smallest_dist][0] in place of D[smallest_dist][-1].
find_closest_first(pos, L) ==
    LET AtDist(dist) == SelectSeq(L, LAMBDA i : Abs(pos - i[1]) = dist)
        D == [dist \in {Abs(pos - L[i][1]) : i \in DOMAIN L} |->
                SortOnCount([k \in 1..Len(AtDist(dist)) |->
                                <<AtDist(dist)[k][2], AtDist(dist)[k][1]>>])]
        smallest_dist == Min(DOMAIN D)
    IN <<smallest_dist, D[smallest_dist][1][1], D[smallest_dist][1][2]>>

find_closest(pos, L) ==
    LET AtDist(dist) == SelectSeq(L, LAMBDA i : Abs(pos - i[1]) = dist)
        \* D = {distance: [(count, position)]}, each list sorted on count
        D == [dist \in {Abs(pos - L[i][1]) : i \in DOMAIN L} |->
                SortOnCount([k \in 1..Len(AtDist(dist)) |->
                                <<AtDist(dist)[k][2], AtDist(dist)[k][1]>>])]
        smallest_dist == Min(DOMAIN D)
        last == D[smallest_dist][Len(D[smallest_dist])]
    IN <<smallest_dist, last[1], last[2]>>

\* The lists find_closest is applied to: the families of one UMI, one per
\* anchor position (the keys of a JSON object are distinct).
FamilyLists ==
    {L \in UNION {[1..k -> (0..MaxPos) \X (1..MaxCount)] : k \in 1..MaxFams} :
        \A i, j \in DOMAIN L : i # j => L[i][1] # L[j][1]}

\* The engine at rest, for the specifications of a single function.
\* No arguments given to a run.
ArgsIdle ==
    /\ family_sizes = <<>>
    /\ pos_threshold = 0
    /\ consensus_threshold = 0
    /\ count_threshold = 0
    /\ truncate = FALSE

\* One process only: no other worker runs against the output directory.
WorkersIdle ==
    /\ procs = <<>>
    /\ StatsDir = FALSE

\* No run of generate_consensus_output started.
RunIdle ==
    /\ pc = "idle"
    /\ column = <<>>
    /\ nreads = 0
    /\ collapsed = <<>>
    /\ uncollapsed = <<>>
    /\ cons_data = <<>>
    /\ consfile = <<>>
    /\ covstats = <<>>
    /\ exception = ""
    /\ WorkersIdle
    /\ vcf = <<>>

EngineIdle == ArgsIdle /\ RunIdle

ClosestInit ==
    /\ call \in [pos : 0..MaxPos, L : FamilyLists]
    /\ ret = <<>>
    /\ EngineIdle

FindClosest ==
    /\ ret = <<>>
    /\ ret' = <<find_closest(call.pos, call.L)>>
    /\ UNCHANGED <<call, args_vars, pileup_vars, out_vars, worker_vars, vcf>>

ClosestNext == FindClosest

SpecClosest == ClosestInit /\ [][ClosestNext]_vars

----------------------------------------------------------------------------
(* C7: find_closest returns the minimum absolute distance over all         *)
(* families, with the count and position of a family at that distance,     *)
(* and no family at that distance has a higher count.                      *)
C7_ClosestHighestCount ==
    ret # <<>> =>
        LET r == ret[1]
            L == call.L
        IN /\ \A i \in DOMAIN L : r[1] <= Abs(call.pos - L[i][1])
           /\ \E i \in DOMAIN L : /\ L[i] = <<r[3], r[2]>>
                                  /\ Abs(call.pos - L[i][1]) = r[1]
           /\ \A i \in DOMAIN L :
                  Abs(call.pos - L[i][1]) = r[1] => L[i][2] <= r[2]

\* Two families at the smallest distance, the first of the sorted pair is
\* not the one returned, and a farther family has a higher count still.
C7_Witness ==
    /\ ret # <<>>
    /\ \E i, j, k \in DOMAIN call.L :
          /\ i < j
          /\ Abs(call.pos - call.L[i][1]) = ret[1][1]
          /\ Abs(call.pos - call.L[j][1]) = ret[1][1]
          /\ call.L[i][2] > call.L[j][2]
          /\ ret[1][3] = call.L[i][1]
          /\ Abs(call.pos - call.L[k][1]) > ret[1][1]
          /\ call.L[k][2] >= ret[1][2]

----------------------------------------------------------------------------
(* (x / y) * 100 in Python: two IEEE-754 binary64 operations, each rounded *)
(* to 53 significant bits, ties to even.  A float is held as               *)
(* [m |-> five base-2^13 digits, s |-> scale]: its value is                *)
(* (m[1]*B^4 + m[2]*B^3 + m[3]*B^2 + m[4]*B + m[5]) / 2^(52+s).            *)

Base == 2 ^ 13

\* The least s with x * 2^s >= y, for 1 <= x <= y.
RECURSIVE Shift(_, _)
Shift(x, y) == IF x >= y THEN 0 ELSE 1 + Shift(2 * x, y)

\* Carries of the four low digits moved up.
Carry(m) ==
    LET d5 == m[5]
        d4 == m[4] + d5 \div Base
        d3 == m[3] + d4 \div Base
        d2 == m[2] + d3 \div Base
        d1 == m[1] + d2 \div Base
    IN <<d1, d2 % Base, d3 % Base, d4 % Base, d5 % Base>>

\* x / y for integers 1 <= x <= y: the significand by long division, then
\* rounded on the remainder.
TrueDiv(x, y) ==
    LET s == Shift(x, y)
        r0 == x * 2 ^ s - y
        q1 == (r0 * Base) \div y
        r1 == (r0 * Base) % y
        q2 == (r1 * Base) \div y
        r2 == (r1 * Base) % y
        q3 == (r2 * Base) \div y
        r3 == (r2 * Base) % y
        q4 == (r3 * Base) \div y
        r4 == (r3 * Base) % y
        up == IF 2 * r4 > y \/ (2 * r4 = y /\ q4 % 2 = 1) THEN 1 ELSE 0
    IN [m |-> Carry(<<1, q1, q2, q3, q4 + up>>), s |-> s]

\* a * 100 for a float a in (0, 1]: the exact product has 59 or 60 bits, of
\* which the low 6 or 7 are rounded away.
Times100(a) ==
    LET p == Carry(<<100 * a.m[1], 100 * a.m[2], 100 * a.m[3], 100 * a.m[4],
                     100 * a.m[5]>>)
        k == IF p[1] < 128 THEN 64 ELSE 128
        kept == p[5] \div k
        rem == p[5] % k
        up == IF 2 * rem > k \/ (2 * rem = k /\ kept % 2 = 1) THEN 1 ELSE 0
    IN [m |-> Carry(<<p[1], p[2], p[3], p[4], (kept + up) * k>>), s |-> a.s]

Zero == [m |-> <<0, 0, 0, 0, 0>>, s |-> 0]

\* (x / y) * 100 for integers 0 <= x <= y; y = 0 is ZeroDivisionError.
ZeroDivisionError == [m |-> <<>>, s |-> 0]

Percent(x, y) ==
    IF y = 0 THEN ZeroDivisionError
    ELSE IF x = 0 THEN Zero
    ELSE Times100(TrueDiv(x, y))

\* a >= t and a <= t for a float a and an integer t.
FloatGE(a, t) == a.m[1] >= t * 2 ^ a.s

FloatLE(a, t) ==
    \/ a.m[1] < t * 2 ^ a.s
    \/ a.m[1] = t * 2 ^ a.s /\ \A i \in 2..5 : a.m[i] = 0

----------------------------------------------------------------------------
(* The inputs of one run of the collapse step on a region.                 *)

contig == "chr1"

\* The region chr1:2-3, 0-based half-open, as collapse() hands it over.
region_start == 1
region_end == 3

\* The sequence of contig in the reference FASTA.
Reference == "CAGTCAGT"

\* get_ref_seq: reader.fetch(contig, region_start, region_end).upper()
ref_seq == SubSeq(Reference, region_start + 1, region_end)

\* Python s[i] and s[i:j] on a string, 0-based, the slice cut at the end.
Index(s, i) == SubSeq(s, i + 1, i + 1)

Slice(s, i, j) == SubSeq(s, i + 1, IF j < Len(s) THEN j ELSE Len(s))

\* The UmiIndex of the region, as json.load returns it.  The key
\* "contig:pos" of a family is held split into contig and pos.
umi_families ==
    ("AAA" :> [parent |-> "AAA",
               positions |-> << [contig |-> "chr1", pos |-> 0, count |-> 2],
                                [contig |-> "chr1", pos |-> 3, count |-> 1] >>])
    @@
    ("AAT" :> [parent |-> "AAA",
               positions |-> << [contig |-> "chr1", pos |-> 0, count |-> 2],
                                [contig |-> "chr1", pos |-> 3, count |-> 1] >>])
    @@
    ("CCC" :> [parent |-> "CCC",
               positions |-> << [contig |-> "chr1", pos |-> 0, count |-> 1] >>])

\* The UMIs of a read name: read_name.split(":")[-1].split(';')
NameUmis == {<<"AAA">>, <<"CCC">>, <<"TTT">>, <<"AAA", "AAT">>}

\* read.query_position is None if is_del or is_refskip is set; None is <<>>
\* and an index i is <<i>>.
None == <<>>

\* The pileup reads of the alignment file: the PileupRead with the fields
\* of its AlignedSegment.  htslib sets is_del on every reference skip, and
\* merges a deletion that follows a deletion, so a deleted base is never
\* followed by a deletion.
PrimaryReads ==
    {r \in [umis : NameUmis,
            reference_start : {0, 2},
            is_unmapped : {FALSE}, is_secondary : {FALSE},
            is_supplementary : {FALSE},
            is_del : BOOLEAN, is_refskip : BOOLEAN,
            indel : {-1, 0, 2},
            query_position : {None, <<0>>},
            query_sequence : {"ATG", "GTG"}] :
        /\ r.is_refskip => r.is_del
        /\ (r.query_position = None) <=> (r.is_del \/ r.is_refskip)
        /\ (r.is_del \/ r.indel # 0) => r.query_sequence = "ATG"
        /\ (r.is_del /\ ~r.is_refskip) => r.indel >= 0
        /\ r.is_refskip => r.indel = 0}

FlaggedReads ==
    {r \in [umis : {<<"AAA">>},
            reference_start : {0},
            is_unmapped : BOOLEAN, is_secondary : BOOLEAN,
            is_supplementary : BOOLEAN,
            is_del : {FALSE}, is_refskip : {FALSE},
            indel : {0},
            query_position : {<<0>>},
            query_sequence : {"ATG"}] :
        Cardinality({f \in {"u", "s", "p"} :
                        \/ f = "u" /\ r.is_unmapped
                        \/ f = "s" /\ r.is_secondary
                        \/ f = "p" /\ r.is_supplementary}) = 1}

PileupReads == PrimaryReads \cup FlaggedReads

----------------------------------------------------------------------------
(* Python dict operations on functions.                                    *)

\* if k not in d: d[k] = v
SetDefault(d, k, v) == d @@ (k :> v)

\* d[k] = v
Put(d, k, v) == (k :> v) @@ d

\* An insertion-ordered dict of counts, as the sequence of its (key, count)
\* items: if k in d: d[k] += 1, else: d[k] = 1
Tally(items, k) ==
    IF \E i \in DOMAIN items : items[i][1] = k
    THEN [i \in DOMAIN items |->
            IF items[i][1] = k THEN <<k, items[i][2] + 1>> ELSE items[i]]
    ELSE Append(items, <<k, 1>>)

----------------------------------------------------------------------------
(* get_consensus_seq: one pileup read of the column at pos.                *)

\* The reference and alternative bases of a read at a column.  Indexing
\* query_sequence with a query_position of None raises TypeError.
consensus_bases(pos, read) ==
    LET ref_pos == pos - region_start
        qp == read.query_position
        TypeError == [raised |-> "TypeError", sets_ref |-> FALSE,
                      ref_base |-> "empty", alt_base |-> "empty"]
    IN IF ~read.is_del /\ read.indel = 0 THEN
           IF qp = None THEN TypeError
           ELSE [raised |-> "", sets_ref |-> TRUE,
                 ref_base |-> Index(ref_seq, ref_pos),
                 alt_base |-> Index(read.query_sequence, qp[1])]
       ELSE IF read.indel > 0 THEN
           \* next position is an insert (current base is ref)
           IF qp = None THEN TypeError
           ELSE [raised |-> "", sets_ref |-> FALSE,
                 ref_base |-> Index(ref_seq, ref_pos),
                 alt_base |-> Slice(read.query_sequence, qp[1],
                                    qp[1] + Abs(read.indel) + 1)]
       ELSE IF read.indel < 0 THEN
           \* next position is a deletion (current base + next bases are ref)
           IF qp = None THEN TypeError
           ELSE [raised |-> "", sets_ref |-> FALSE,
                 ref_base |-> Slice(ref_seq, ref_pos,
                                    ref_pos + Abs(read.indel) + 1),
                 alt_base |-> Index(read.query_sequence, qp[1])]
       ELSE [raised |-> "", sets_ref |-> FALSE,
             ref_base |-> "empty", alt_base |-> "empty"]

\* FamSize[pos][parent][closest] = count
record_fam_size(FamSize, pos, parent, closest, count) ==
    LET at_pos == SetDefault(FamSize, pos, <<>>)[pos]
        at_parent == SetDefault(at_pos, parent, <<>>)[parent]
    IN Put(FamSize, pos, Put(at_pos, parent, Put(at_parent, closest, count)))

\* consensus_seq[pos]['families'][family_key][allele] += 1
count_allele(consensus_seq, pos, family_key, allele) ==
    LET at_pos == SetDefault(consensus_seq, pos, <<>>)[pos]
        families == SetDefault(at_pos, "families", <<>>)["families"]
        bucket == SetDefault(families, family_key, <<>>)[family_key]
    IN Put(consensus_seq, pos,
           Put(at_pos, "families",
               Put(families, family_key, Tally(bucket, allele))))

\* The mutant: "if closest < pos_threshold".
matched_family_strict(umi, start_pos, fam_size, P) ==
    IF umi \notin DOMAIN umi_families THEN <<>>
    ELSE LET positions == umi_families[umi].positions
             L == [i \in DOMAIN positions |->
                      <<positions[i].pos, positions[i].count>>]
             fc == find_closest(start_pos, L)
         IN IF fc[1] < P /\ fc[2] >= fam_size THEN <<fc>> ELSE <<>>

\* The mutant: the family size is tested on the sum of the counts of the
\* families of the umi.
matched_family_umi_count(umi, start_pos, fam_size, P) ==
    IF umi \notin DOMAIN umi_families THEN <<>>
    ELSE LET positions == umi_families[umi].positions
             L == [i \in DOMAIN positions |->
                      <<positions[i].pos, positions[i].count>>]
             fc == find_closest(start_pos, L)
         IN IF fc[1] <= P /\
               SumSeq([i \in DOMAIN positions |-> positions[i].count]) >= fam_size
            THEN <<fc>> ELSE <<>>

\* The family a UMI of a read is matched to: <<>> when the UMI is not in
\* umi_families, its closest family is farther than pos_threshold, or the
\* count of that family is below fam_size; else <<(closest, count,
\* position_closest)>>.
matched_family(umi, start_pos, fam_size, P) ==
    IF umi \notin DOMAIN umi_families THEN <<>>
    ELSE LET positions == umi_families[umi].positions
             L == [i \in DOMAIN positions |->
                      <<positions[i].pos, positions[i].count>>]
             fc == find_closest(start_pos, L)
         IN IF fc[1] <= P /\ fc[2] >= fam_size THEN <<fc>> ELSE <<>>

\* The body of "for umi in umis" for one umi.  v holds the locals
\* consensus_seq and FamSize of the call, and the exception it raised.
observe_umi(v, fam_size, pos, read, umi) ==
    LET fam == matched_family(umi, read.reference_start, fam_size, pos_threshold)
    IN IF v.raised # "" \/ fam = <<>> THEN v
       ELSE
        LET closest == fam[1][1]
            count == fam[1][2]
            position_closest == fam[1][3]
            parent == umi_families[umi].parent
            FamSize1 == record_fam_size(v.FamSize, pos, parent, closest, count)
            family_key == parent \o ToString(position_closest)
            b == consensus_bases(pos, read)
            seq1 == IF b.sets_ref
                    THEN LET at_pos == SetDefault(v.consensus_seq, pos, <<>>)[pos]
                         IN Put(v.consensus_seq, pos,
                                SetDefault(at_pos, "ref_base", b.ref_base))
                    ELSE v.consensus_seq
            seq2 == IF ~read.is_del /\ ~read.is_refskip
                    THEN count_allele(seq1, pos, family_key,
                                      <<b.ref_base, b.alt_base>>)
                    ELSE seq1
        IN IF b.raised # ""
           THEN [consensus_seq |-> v.consensus_seq, FamSize |-> FamSize1,
                 raised |-> b.raised]
           ELSE [consensus_seq |-> seq2, FamSize |-> FamSize1, raised |-> ""]

RECURSIVE observe_umis(_, _, _, _, _)
observe_umis(v, fam_size, pos, read, umis) ==
    IF umis = <<>> THEN v
    ELSE observe_umis(observe_umi(v, fam_size, pos, read, Head(umis)),
                      fam_size, pos, read, Tail(umis))

\* The body of "for read in pileupcolumn.pileups" of get_consensus_seq.
consensus_read(v, fam_size, pos, read) ==
    IF region_start <= pos /\ pos < region_end
       /\ read.is_unmapped = FALSE /\ read.is_secondary = FALSE
       /\ read.is_supplementary = FALSE
    THEN observe_umis(v, fam_size, pos, read, read.umis)
    ELSE v

----------------------------------------------------------------------------
(* get_uncollapsed_seq: one pileup read of the column at pos.  ref_base    *)
(* and alt_base are locals of the function that no statement resets: u.bound *)
(* tells whether an earlier read assigned them.  Their stale value is      *)
(* read only by the test ref_base == '' of a debugging print.              *)

\* The mutant: a read none of whose umis is in umi_families is skipped.
uncollapsed_read_indexed(u, pos, read) ==
    IF u.raised # "" THEN u
    ELSE IF ~(region_start <= pos /\ pos < region_end) THEN u
    ELSE IF ~(read.is_unmapped = FALSE /\ read.is_secondary = FALSE
              /\ read.is_supplementary = FALSE) THEN u
    ELSE IF \A i \in DOMAIN read.umis : read.umis[i] \notin DOMAIN umi_families THEN u
    ELSE
     LET counted == [u EXCEPT !.read_count = @ + 1]
         qp == read.query_position
         assigns == (~read.is_del /\ read.indel = 0) \/ read.indel # 0
         ref_base ==
             IF read.indel < 0
             THEN Slice(ref_seq, pos - region_start,
                        pos - region_start + Abs(read.indel) + 1)
             ELSE Index(ref_seq, pos - region_start)
         alt_base ==
             IF read.indel > 0
             THEN Slice(read.query_sequence, qp[1], qp[1] + Abs(read.indel) + 1)
             ELSE Index(read.query_sequence, qp[1])
         seq1 == IF ~read.is_del /\ read.indel = 0
                 THEN LET at_pos == SetDefault(u.uncollapsed_seq, pos, <<>>)[pos]
                      IN Put(u.uncollapsed_seq, pos,
                             Put(at_pos, "ref_base", ref_base))
                 ELSE u.uncollapsed_seq
         at_pos2 == SetDefault(seq1, pos, <<>>)[pos]
         alleles == SetDefault(at_pos2, "alleles", <<>>)["alleles"]
         allele == <<ref_base, alt_base>>
         seq2 == Put(seq1, pos,
                     Put(at_pos2, "alleles",
                         IF allele \in DOMAIN alleles
                         THEN Put(alleles, allele, alleles[allele] + 1)
                         ELSE Put(alleles, allele, 1)))
     IN IF assigns /\ qp = None
        THEN [counted EXCEPT !.raised = "TypeError"]
        ELSE IF ~assigns /\ ~u.bound
        THEN [counted EXCEPT !.raised = "UnboundLocalError"]
        ELSE IF ~read.is_del /\ ~read.is_refskip
        THEN [counted EXCEPT !.uncollapsed_seq = seq2, !.bound = TRUE]
        ELSE [counted EXCEPT !.bound = TRUE]

uncollapsed_read(u, pos, read) ==
    IF u.raised # "" THEN u
    ELSE IF ~(region_start <= pos /\ pos < region_end) THEN u
    ELSE IF ~(read.is_unmapped = FALSE /\ read.is_secondary = FALSE
              /\ read.is_supplementary = FALSE) THEN u
    ELSE
     LET counted == [u EXCEPT !.read_count = @ + 1]
         qp == read.query_position
         assigns == (~read.is_del /\ read.indel = 0) \/ read.indel # 0
         ref_base ==
             IF read.indel < 0
             THEN Slice(ref_seq, pos - region_start,
                        pos - region_start + Abs(read.indel) + 1)
             ELSE Index(ref_seq, pos - region_start)
         alt_base ==
             IF read.indel > 0
             THEN Slice(read.query_sequence, qp[1], qp[1] + Abs(read.indel) + 1)
             ELSE Index(read.query_sequence, qp[1])
         seq1 == IF ~read.is_del /\ read.indel = 0
                 THEN LET at_pos == SetDefault(u.uncollapsed_seq, pos, <<>>)[pos]
                      IN Put(u.uncollapsed_seq, pos,
                             Put(at_pos, "ref_base", ref_base))
                 ELSE u.uncollapsed_seq
         at_pos2 == SetDefault(seq1, pos, <<>>)[pos]
         alleles == SetDefault(at_pos2, "alleles", <<>>)["alleles"]
         allele == <<ref_base, alt_base>>
         seq2 == Put(seq1, pos,
                     Put(at_pos2, "alleles",
                         IF allele \in DOMAIN alleles
                         THEN Put(alleles, allele, alleles[allele] + 1)
                         ELSE Put(alleles, allele, 1)))
     IN IF assigns /\ qp = None
        THEN [counted EXCEPT !.raised = "TypeError"]
        ELSE IF ~assigns /\ ~u.bound
        THEN [counted EXCEPT !.raised = "UnboundLocalError"]
        ELSE IF ~read.is_del /\ ~read.is_refskip
        THEN [counted EXCEPT !.uncollapsed_seq = seq2, !.bound = TRUE]
        ELSE [counted EXCEPT !.bound = TRUE]

\* The end of the body of "for pileupcolumn in reader.pileup(...)":
\* covArray.append(read_count), for a column of the region.
end_column(u, col) ==
    IF u.raised = "" /\ col # <<>>
       /\ region_start <= col[1] /\ col[1] < region_end
    THEN [u EXCEPT !.covArray = Append(@, u.read_count)]
    ELSE u

----------------------------------------------------------------------------
(* The run: the pileup iterator hands out columns in ascending position    *)
(* and, in a column, its reads.  get_consensus_seq (once per family size)  *)
(* and get_uncollapsed_seq each walk the same pileup, one after the other; *)
(* here they advance together, read by read, each on its own locals.       *)

\* The most pileup reads the alignment file holds over the region.
MaxReads == 2

\* The family sizes asked for (famsize, comma-separated).
FamSizeArgs == {<<2, 1>>, <<0, 1>>}

\* The family sizes f >= 1 of a list.
CollapsedSizes(sizes) == {sizes[i] : i \in DOMAIN sizes} \ {0}

\* Columns the iterator can hand out: with truncate only those of the
\* region, else also those the overlapping reads reach on either side.
ColumnPositions(trunc) ==
    IF trunc THEN region_start..(region_end - 1)
    ELSE (region_start - 1)..region_end

Init ==
    /\ call = <<>>
    /\ ret = <<>>
    /\ family_sizes \in FamSizeArgs
    /\ pos_threshold \in {1}
    /\ consensus_threshold \in {50, 70}
    /\ count_threshold \in {1, 2}
    /\ truncate \in {FALSE}
    /\ pc = "pileup"
    /\ column = <<>>
    /\ nreads = 0
    /\ collapsed = [f \in CollapsedSizes(family_sizes) |->
                       [consensus_seq |-> <<>>, FamSize |-> <<>>, raised |-> ""]]
    /\ uncollapsed = [uncollapsed_seq |-> <<>>, covArray |-> <<>>,
                      read_count |-> 0, bound |-> FALSE, raised |-> ""]
    /\ cons_data = <<>>
    /\ consfile = <<>>
    /\ covstats = <<>>
    /\ exception = ""
    /\ WorkersIdle
    /\ vcf = <<>>

\* The iterator moves to the next covered column.
PileupColumn(p) ==
    /\ pc = "pileup"
    /\ IF column = <<>> THEN TRUE ELSE column[1] < p
    /\ column' = <<p>>
    /\ uncollapsed' = [end_column(uncollapsed, column) EXCEPT !.read_count = 0]
    /\ UNCHANGED <<pure_vars, args_vars, pc, nreads, collapsed, out_vars, worker_vars, vcf>>

\* The next read of the column.
PileupRead(read) ==
    /\ pc = "pileup"
    /\ column # <<>>
    /\ nreads < MaxReads
    /\ read.reference_start <= column[1]
    /\ nreads' = nreads + 1
    /\ collapsed' = [f \in DOMAIN collapsed |->
                        consensus_read(collapsed[f], f, column[1], read)]
    /\ uncollapsed' = uncollapsed_read(uncollapsed, column[1], read)
    /\ UNCHANGED <<pure_vars, args_vars, pc, column, out_vars, worker_vars, vcf>>

----------------------------------------------------------------------------
(* generate_consensus: the family vote at every position recorded.         *)

RECURSIVE SumOver(_, _)
\* The sum of f[x] over the x of a finite set S.
SumOver(f, S) ==
    IF S = {} THEN 0
    ELSE LET x == CHOOSE x \in S : TRUE IN f[x] + SumOver(f, S \ {x})

\* sum(d.values()) of a bucket, a sequence of (allele, count) items
BucketSum(bucket) == SumSeq([i \in DOMAIN bucket |-> bucket[i][2]])

\* get_fam_size(FamSize, position): (min(L), sum(L) / len(L)) over the
\* counts FamSize[position][parent][distance]; the mean is held as the
\* fraction sum(L) / len(L).
get_fam_size(FamSize, position) ==
    LET keys == {<<i, j>> \in UNION {{i} \X DOMAIN FamSize[position][i] :
                                       i \in DOMAIN FamSize[position]} : TRUE}
        L == [k \in keys |-> FamSize[position][k[1]][k[2]]]
    IN <<Min({L[k] : k \in keys}),
         [num |-> SumOver(L, keys), den |-> Cardinality(keys)]>>

\* max(bucket.items(), key=operator.itemgetter(1))[0]: max returns the
\* first of the items with the largest count, in the order of the dict.
cons_allele_of(bucket) ==
    LET i == CHOOSE i \in DOMAIN bucket :
                /\ \A j \in DOMAIN bucket : bucket[j][2] <= bucket[i][2]
                /\ \A j \in 1..(i - 1) : bucket[j][2] < bucket[i][2]
    IN bucket[i]

\* cons_freq >= consensus_threshold and count >= count_threshold
passes_thresholds(count, cons_denom, percent, min_count) ==
    /\ FloatGE(Percent(count, cons_denom), percent)
    /\ count >= min_count

\* The mutant: consensuses[cons_allele] += the count of the allele.
consensuses_by_count(families) ==
    LET won == {family \in DOMAIN families :
                  passes_thresholds(cons_allele_of(families[family])[2],
                                    BucketSum(families[family]),
                                    consensus_threshold, count_threshold)}
        counts == [family \in won |-> cons_allele_of(families[family])[2]]
    IN [allele \in {cons_allele_of(families[family])[1] : family \in won} |->
          SumOver(counts, {family \in won :
                             cons_allele_of(families[family])[1] = allele})]

\* consensuses: for every family bucket of the position, the allele with
\* the highest count is counted once if it passes the thresholds.
consensuses_of(families) ==
    LET won == {family \in DOMAIN families :
                  passes_thresholds(cons_allele_of(families[family])[2],
                                    BucketSum(families[family]),
                                    consensus_threshold, count_threshold)}
    IN [allele \in {cons_allele_of(families[family])[1] : family \in won} |->
          Cardinality({family \in won :
                          cons_allele_of(families[family])[1] = allele})]

\* The mutant: raw_depth = cons_denom in place of raw_depth += cons_denom.
raw_depth_last(families) ==
    IF DOMAIN families = {} THEN 0
    ELSE BucketSum(families[CHOOSE family \in DOMAIN families : TRUE])

\* raw_depth: the sum of cons_denom over the family buckets
raw_depth_of(families) ==
    SumOver([family \in DOMAIN families |-> BucketSum(families[family])],
            DOMAIN families)

\* The mutant: no test that (ref_base, ref_base) is in consensuses.
ref_freq_unguarded(cons_info, ref_base, depth) ==
    Percent(IF <<ref_base, ref_base>> \in DOMAIN cons_info
            THEN cons_info[<<ref_base, ref_base>>] ELSE 0, depth)

\* ref_freq: (count of (ref_base, ref_base) / depth) * 100, or 0
ref_freq_of(cons_info, ref_base, depth) ==
    IF <<ref_base, ref_base>> \in DOMAIN cons_info
    THEN Percent(cons_info[<<ref_base, ref_base>>], depth)
    ELSE Zero

\* The entry cons_data[pos] of generate_consensus.
consensus_entry(v, pos) ==
    LET ref_base == v.consensus_seq[pos]["ref_base"]
        fam == get_fam_size(v.FamSize, pos)
        consensuses == consensuses_of(v.consensus_seq[pos]["families"])
        cons_depth == SumOver(consensuses, DOMAIN consensuses)
    IN [ref_info |-> [contig |-> contig, base_pos |-> pos, ref_base |-> ref_base],
        cons_info |-> consensuses,
        stats |-> [rawdp |-> raw_depth_of(v.consensus_seq[pos]["families"]),
                   consdp |-> cons_depth,
                   min_fam |-> fam[1], mean_fam |-> fam[2],
                   ref_freq |-> ref_freq_of(consensuses, ref_base, cons_depth)]]

\* generate_consensus for one family size: the exception of the pileup
\* walk, KeyError when a position recorded has no 'ref_base', else the dict.
generate_consensus(v) ==
    IF v.raised # "" THEN [raised |-> v.raised, cons_data |-> <<>>]
    ELSE IF \E pos \in DOMAIN v.consensus_seq :
                "ref_base" \notin DOMAIN v.consensus_seq[pos]
    THEN [raised |-> "KeyError", cons_data |-> <<>>]
    ELSE IF \E pos \in DOMAIN v.consensus_seq :
                v.consensus_seq[pos]["ref_base"] # Index(ref_seq, pos - region_start)
    THEN [raised |-> "AssertionError", cons_data |-> <<>>]
    ELSE [raised |-> "",
          cons_data |-> [pos \in DOMAIN v.consensus_seq |-> consensus_entry(v, pos)]]

----------------------------------------------------------------------------
(* generate_uncollapsed                                                    *)

\* The entry cons_data[pos] of generate_uncollapsed.
uncollapsed_entry(u, pos) ==
    LET ref_base == u.uncollapsed_seq[pos]["ref_base"]
        alleles == u.uncollapsed_seq[pos]["alleles"]
        depth == SumOver(alleles, DOMAIN alleles)
    IN [ref_info |-> [contig |-> contig, base_pos |-> pos, ref_base |-> ref_base],
        cons_info |-> alleles,
        stats |-> [rawdp |-> depth, consdp |-> depth,
                   min_fam |-> 0, mean_fam |-> [num |-> 0, den |-> 1],
                   ref_freq |-> ref_freq_of(alleles, ref_base, depth)]]

\* coverage = sum(covArray) / len(covArray), 0 when the division fails;
\* held as the fraction, before round(coverage, 2).
coverage_of(covArray) ==
    IF covArray = <<>> THEN [num |-> 0, den |-> 1]
    ELSE [num |-> SumSeq(covArray), den |-> Len(covArray)]

\* u is the state of get_uncollapsed_seq after its last column.
generate_uncollapsed(u) ==
    IF u.raised # "" THEN [raised |-> u.raised, cons_data |-> <<>>]
    ELSE IF \E pos \in DOMAIN u.uncollapsed_seq :
                "ref_base" \notin DOMAIN u.uncollapsed_seq[pos]
    THEN [raised |-> "KeyError", cons_data |-> <<>>]
    ELSE IF \E pos \in DOMAIN u.uncollapsed_seq :
                u.uncollapsed_seq[pos]["ref_base"] # Index(ref_seq, pos - region_start)
    THEN [raised |-> "AssertionError", cons_data |-> <<>>]
    ELSE IF \E pos \in DOMAIN u.uncollapsed_seq :
                "alleles" \notin DOMAIN u.uncollapsed_seq[pos]
    THEN [raised |-> "KeyError", cons_data |-> <<>>]
    ELSE [raised |-> "",
          cons_data |-> [pos \in DOMAIN u.uncollapsed_seq |->
                            uncollapsed_entry(u, pos)]]

----------------------------------------------------------------------------
(* raw_table_output: the consensus table of the region.                    *)

Header == <<"CHROM", "POS", "REF", "A", "C", "G", "T", "I", "D", "N",
            "RAWDP", "CONSDP", "FAM", "REF_FREQ", "MEAN_FAM">>

\* The mutant: the set taken from its largest element down.
RECURSIVE Unsorted(_)
Unsorted(S) ==
    IF S = {} THEN <<>>
    ELSE LET x == CHOOSE x \in S : \A y \in S : y <= x
         IN <<x>> \o Unsorted(S \ {x})

\* sorted(S) for a finite set of integers
RECURSIVE Sorted(_)
Sorted(S) == IF S = {} THEN <<>> ELSE <<Min(S)>> \o Sorted(S \ {Min(S)})

\* The key of counts an allele is added to: a reference longer than one
\* base is a deletion, else an alternative longer than one base is an
\* insertion, else the alternative base itself.
count_key(allele) ==
    IF Len(allele[1]) > 1 THEN "D"
    ELSE IF Len(allele[2]) > 1 THEN "I"
    ELSE allele[2]

\* The mutant: counts[key] += 1 for an allele of the entry.
counts_once(cons) ==
    [k \in {"A", "C", "G", "T", "I", "D", "N"} |->
        Cardinality({allele \in DOMAIN cons : count_key(allele) = k})]

\* counts = {'A': 0, ..., 'N': 0}, then counts[key] += cons[allele]
counts_of(cons) ==
    [k \in {"A", "C", "G", "T", "I", "D", "N"} |->
        SumOver(cons, {allele \in DOMAIN cons : count_key(allele) = k})]

\* The mutant: the line holds pos in place of pos + 1.
table_line_zero_based(data, pos, f_size) ==
    IF pos \notin DOMAIN data[f_size]
    THEN [raised |-> "AssertionError", line |-> <<>>]
    ELSE
     LET ref_base == Index(ref_seq, pos - region_start)
         ref == data[f_size][pos].ref_info
         cons == data[f_size][pos].cons_info
         stats == data[f_size][pos].stats
         counts == counts_of(cons)
     IN IF ref_base # ref.ref_base
        THEN [raised |-> "AssertionError", line |-> <<>>]
        ELSE IF \E allele \in DOMAIN cons : count_key(allele) \notin DOMAIN counts
        THEN [raised |-> "KeyError", line |-> <<>>]
        ELSE [raised |-> "",
              line |-> [CHROM |-> contig, POS |-> pos, REF |-> ref_base,
                        A |-> counts["A"], C |-> counts["C"], G |-> counts["G"],
                        T |-> counts["T"], I |-> counts["I"], D |-> counts["D"],
                        N |-> counts["N"],
                        RAWDP |-> stats.rawdp, CONSDP |-> stats.consdp,
                        FAM |-> f_size, REF_FREQ |-> stats.ref_freq,
                        MEAN_FAM |-> stats.mean_fam]]

\* One pass of the loop body for (pos, f_size): the exception it raises,
\* or the line it writes.
table_line(data, pos, f_size) ==
    IF pos \notin DOMAIN data[f_size]
    THEN [raised |-> "AssertionError", line |-> <<>>]
    ELSE
     LET ref_base == Index(ref_seq, pos - region_start)
         ref == data[f_size][pos].ref_info
         cons == data[f_size][pos].cons_info
         stats == data[f_size][pos].stats
         counts == counts_of(cons)
     IN IF ref_base # ref.ref_base
        THEN [raised |-> "AssertionError", line |-> <<>>]
        ELSE IF \E allele \in DOMAIN cons : count_key(allele) \notin DOMAIN counts
        THEN [raised |-> "KeyError", line |-> <<>>]
        ELSE [raised |-> "",
              line |-> [CHROM |-> contig, POS |-> pos + 1, REF |-> ref_base,
                        A |-> counts["A"], C |-> counts["C"], G |-> counts["G"],
                        T |-> counts["T"], I |-> counts["I"], D |-> counts["D"],
                        N |-> counts["N"],
                        RAWDP |-> stats.rawdp, CONSDP |-> stats.consdp,
                        FAM |-> f_size, REF_FREQ |-> stats.ref_freq,
                        MEAN_FAM |-> stats.mean_fam]]

\* open(OutputFile, 'w'), the header, then "for pos in positions: for f_size
\* in sorted(cons_data.keys())" over the sorted positions of all views: the
\* lines written up to the first exception.
raw_table_output(data) ==
    LET positions == Sorted(UNION {DOMAIN data[f] : f \in DOMAIN data})
        sizes == Sorted(DOMAIN data)
        n == Len(sizes)
        pass == [k \in 1..(Len(positions) * n) |->
                    table_line(data, positions[((k - 1) \div n) + 1],
                               sizes[((k - 1) % n) + 1])]
        failed == {k \in DOMAIN pass : pass[k].raised # ""}
        written == IF failed = {} THEN Len(pass) ELSE Min(failed) - 1
    IN [raised |-> IF failed = {} THEN "" ELSE pass[Min(failed)].raised,
        lines |-> <<Header>> \o [k \in 1..written |-> pass[k].line]]

----------------------------------------------------------------------------
(* generate_consensus_output, after the pileup walks.                      *)

\* The mutant: only the family sizes listed.
view_order_listed(sizes) == sizes

\* "for f_size in family_sizes" and the uncollapsed data if 0 is not among
\* them: the views in the order they are computed.
view_order(sizes) ==
    IF \E i \in DOMAIN sizes : sizes[i] = 0 THEN sizes ELSE Append(sizes, 0)

\* cons_data filled view by view, up to the first exception.
build_views(order, c, u) ==
    LET view == [i \in DOMAIN order |->
                    IF order[i] = 0 THEN generate_uncollapsed(u)
                    ELSE generate_consensus(c[order[i]])]
        failed == {i \in DOMAIN order : view[i].raised # ""}
        done == IF failed = {} THEN Len(order) ELSE Min(failed) - 1
    IN [raised |-> IF failed = {} THEN "" ELSE view[Min(failed)].raised,
        cons_data |-> [f_size \in {order[i] : i \in 1..done} |->
                          view[CHOOSE i \in 1..done : order[i] = f_size].cons_data]]

\* A file opened with 'a' keeps what it holds and the lines follow it.
open_a(file, lines) == file \o lines

\* newfile = open(OutputFile, 'w'): the file is truncated, then the lines
\* are written.
open_w(file, lines) == lines

Output ==
    /\ pc = "pileup"
    /\ pc' = "done"
    /\ \E u \in {end_column(uncollapsed, column)} :
        \E built \in {build_views(view_order(family_sizes), collapsed, u)} :
         \E table \in {raw_table_output(built.cons_data)} :
          /\ uncollapsed' = u
          /\ cons_data' = built.cons_data
          /\ IF built.raised # ""
             THEN /\ exception' = built.raised
                  /\ UNCHANGED <<consfile, covstats>>
             ELSE /\ exception' = table.raised
                  /\ consfile' = open_w(consfile, table.lines)
                  /\ covstats' =
                       IF table.raised = ""
                       THEN Append(covstats,
                                   [region |-> <<contig, region_start + 1, region_end>>,
                                    coverage |-> coverage_of(u.covArray)])
                       ELSE covstats
    /\ UNCHANGED <<pure_vars, args_vars, column, nreads, collapsed, worker_vars, vcf>>

Next ==
    \/ \E p \in ColumnPositions(truncate) : PileupColumn(p)
    \/ \E read \in PileupReads : PileupRead(read)
    \/ Output

Spec == Init /\ [][Next]_vars

\* The rows of the consensus table, without its header.
Rows == IF consfile = <<>> THEN <<>> ELSE Tail(consfile)


----------------------------------------------------------------------------
(* The family matching of get_consensus_seq on one read and one umi.       *)

MaxStart == 5
MaxP == 2
MaxFamSize == 3

\* No observation of a call of get_consensus_seq yet.
NoObservation == [consensus_seq |-> <<>>, FamSize |-> <<>>, raised |-> ""]

\* A mapped read with one umi in its name, aligned without indel from
\* start_pos on.
AlignedRead(umi, start_pos) ==
    [umis |-> <<umi>>, reference_start |-> start_pos,
     is_unmapped |-> FALSE, is_secondary |-> FALSE, is_supplementary |-> FALSE,
     is_del |-> FALSE, is_refskip |-> FALSE, indel |-> 0,
     query_position |-> <<0>>, query_sequence |-> "ATG"]

FamilyInit ==
    /\ call \in [umi : DOMAIN umi_families \cup {"TTT"},
                 start_pos : 0..MaxStart,
                 fam_size : 1..MaxFamSize,
                 pos : region_start..(region_end - 1)]
    /\ ret = <<>>
    /\ family_sizes = <<>>
    /\ pos_threshold \in 0..MaxP
    /\ consensus_threshold = 0
    /\ count_threshold = 0
    /\ truncate = FALSE
    /\ RunIdle

\* The body of "for umi in umis" on the read at a column, in a call of
\* get_consensus_seq that has observed nothing yet.
ObserveUmi ==
    /\ ret = <<>>
    /\ ret' = <<observe_umi(NoObservation, call.fam_size, call.pos,
                            AlignedRead(call.umi, call.start_pos), call.umi)>>
    /\ UNCHANGED <<call, args_vars, pileup_vars, out_vars, worker_vars, vcf>>

FamilyNext == ObserveUmi

SpecFamily == FamilyInit /\ [][FamilyNext]_vars

----------------------------------------------------------------------------
(* The family vote of generate_consensus on one family bucket.             *)

MaxVotes == 30

\* A bucket of one family at a column: the reference allele seen first,
\* then an alternative allele if any read had it.
VoteBucket(won, other) ==
    IF other = 0 THEN << <<<<"A", "A">>, won>> >>
    ELSE << <<<<"A", "A">>, won>>, <<<<"A", "G">>, other>> >>

VoteInit ==
    /\ \E won \in 1..MaxVotes : \E other \in 0..won :
          call = [families |-> ("AAA0" :> VoteBucket(won, other))]
    /\ ret = <<>>
    /\ family_sizes = <<>>
    /\ pos_threshold = 0
    /\ consensus_threshold \in {50, 58}
    /\ count_threshold \in {1, 2}
    /\ truncate = FALSE
    /\ RunIdle

\* "for family in consensus_seq[pos]['families']" on the bucket.
Vote ==
    /\ ret = <<>>
    /\ ret' = <<consensuses_of(call.families)>>
    /\ UNCHANGED <<call, args_vars, pileup_vars, out_vars, worker_vars, vcf>>

VoteNext == Vote

SpecVote == VoteInit /\ [][VoteNext]_vars


----------------------------------------------------------------------------
(* Claims on the family matching, under SpecFamily.                        *)

\* C8: a read whose start is at distance exactly pos_threshold of the
\* closest family of its umi is attributed to a family at that distance
\* (when the families at that distance have the size asked for): the family
\* size of that family is recorded for the column and the base of the read is
\* tallied in its bucket.  A read whose closest family is at distance
\* pos_threshold + 1 or more leaves no observation at the column.
C8_ThresholdInclusive ==
    (ret # <<>> /\ call.umi \in DOMAIN umi_families) =>
        LET positions == umi_families[call.umi].positions
            parent == umi_families[call.umi].parent
            dist(i) == Abs(call.start_pos - positions[i].pos)
            d == Min({dist(i) : i \in DOMAIN positions})
            near == {i \in DOMAIN positions : dist(i) = d}
        IN /\ (d = pos_threshold /\
               \A i \in near : positions[i].count >= call.fam_size) =>
                 \E i \in near :
                    /\ ret[1].FamSize =
                          (call.pos :> (parent :> (d :> positions[i].count)))
                    /\ DOMAIN ret[1].consensus_seq[call.pos]["families"] =
                          {parent \o ToString(positions[i].pos)}
           /\ d > pos_threshold => ret[1] = NoObservation

\* A read at distance exactly pos_threshold >= 1 of its closest family was
\* attributed to it.
C8_Witness ==
    /\ ret # <<>>
    /\ call.umi \in DOMAIN umi_families
    /\ pos_threshold >= 1
    /\ LET positions == umi_families[call.umi].positions
       IN /\ \A i \in DOMAIN positions :
                 Abs(call.start_pos - positions[i].pos) >= pos_threshold
          /\ \E i \in DOMAIN positions :
                 Abs(call.start_pos - positions[i].pos) = pos_threshold
    /\ ret[1] # NoObservation

\* C9: a read leaves an observation for family size f only if the family it
\* is matched to, the one whose bucket holds its base, has itself a count
\* of at least f, whatever the other families of the umi add up to.
C9_OwnFamilyCount ==
    (ret # <<>> /\ ret[1] # NoObservation) =>
        LET positions == umi_families[call.umi].positions
            parent == umi_families[call.umi].parent
        IN \E i \in DOMAIN positions :
              /\ DOMAIN ret[1].consensus_seq[call.pos]["families"] =
                    {parent \o ToString(positions[i].pos)}
              /\ positions[i].count >= call.fam_size
              /\ \A j \in DOMAIN positions :
                    Abs(call.start_pos - positions[i].pos) <=
                    Abs(call.start_pos - positions[j].pos)

\* The umi has several families whose counts add up to f or more, the read
\* is within pos_threshold of the closest of them, and it left no
\* observation.
C9_Witness ==
    /\ ret # <<>>
    /\ call.umi \in DOMAIN umi_families
    /\ LET positions == umi_families[call.umi].positions
       IN /\ Len(positions) > 1
          /\ SumSeq([i \in DOMAIN positions |-> positions[i].count]) >= call.fam_size
          /\ \E i \in DOMAIN positions :
                 Abs(call.start_pos - positions[i].pos) <= pos_threshold
    /\ ret[1] = NoObservation

----------------------------------------------------------------------------
(* Claims on the family vote, under SpecVote.                              *)

\* C5: the winning allele of a family is counted if and only if its
\* frequency in the bucket, winner count / bucket sum x 100, is at least
\* consensus_threshold and its count is at least count_threshold, a
\* frequency equal to the threshold included.
C5_VoteThresholds ==
    ret # <<>> =>
        LET bucket == call.families["AAA0"]
            won == bucket[1][2]
            cons_denom == BucketSum(bucket)
        IN (<<"A", "A">> \in DOMAIN ret[1]) <=>
              (won * 100 >= consensus_threshold * cons_denom /\
               won >= count_threshold)


----------------------------------------------------------------------------
(* Claims on a run of generate_consensus_output, under Spec.               *)

\* C1: in every entry generate_consensus produced for a family size f >= 1,
\* the raw depth is at least the consensus depth.
C1_RawDepthCoversConsDepth ==
    \A f \in DOMAIN cons_data : f >= 1 =>
        \A pos \in DOMAIN cons_data[f] :
            cons_data[f][pos].stats.rawdp >= cons_data[f][pos].stats.consdp

\* An entry for f >= 1 where some family voted and the reads tallied
\* outnumber the votes.
C1_Witness ==
    \E f \in DOMAIN cons_data : f >= 1 /\
        \E pos \in DOMAIN cons_data[f] :
            /\ cons_data[f][pos].stats.consdp >= 1
            /\ cons_data[f][pos].stats.rawdp > cons_data[f][pos].stats.consdp

\* C2: every entry of generate_consensus and of generate_uncollapsed has a
\* ref_freq that was computed without a division by zero and lies between
\* 0 and 100; it is 0 when the allele (ref_base, ref_base) is not counted.
C2_RefFreqRange ==
    \A f \in DOMAIN cons_data : \A pos \in DOMAIN cons_data[f] :
        LET entry == cons_data[f][pos]
            ref_base == entry.ref_info.ref_base
        IN IF entry.stats.ref_freq = ZeroDivisionError THEN FALSE
           ELSE /\ FloatGE(entry.stats.ref_freq, 0)
                /\ FloatLE(entry.stats.ref_freq, 100)
                /\ <<ref_base, ref_base>> \notin DOMAIN entry.cons_info =>
                      entry.stats.ref_freq = Zero

\* An entry for f >= 1 at a position with reads tallied where no family
\* passed the vote, and an uncollapsed entry whose reads all show the
\* reference base.
C2_Witness ==
    /\ \E f \in DOMAIN cons_data : f >= 1 /\
          \E pos \in DOMAIN cons_data[f] :
              /\ cons_data[f][pos].stats.rawdp >= 1
              /\ cons_data[f][pos].stats.consdp = 0
              /\ cons_data[f][pos].stats.ref_freq = Zero
    /\ 0 \in DOMAIN cons_data
    /\ \E pos \in DOMAIN cons_data[0] :
          /\ FloatGE(cons_data[0][pos].stats.ref_freq, 100)
          /\ FloatLE(cons_data[0][pos].stats.ref_freq, 100)

\* C3: in every row of the consensus table, A + C + G + T + I + D + N is
\* CONSDP when FAM >= 1 and RAWDP when FAM = 0.
C3_RowCountsSum ==
    \A i \in DOMAIN Rows :
        LET row == Rows[i]
            total == row.A + row.C + row.G + row.T + row.I + row.D + row.N
        IN total = IF row.FAM >= 1 THEN row.CONSDP ELSE row.RAWDP

\* A table with an uncollapsed row of two reads, one of them an indel, and
\* a row for f >= 1 with fewer votes than reads.
C3_Witness ==
    /\ \E i \in DOMAIN Rows :
          /\ Rows[i].FAM = 0
          /\ Rows[i].I + Rows[i].D = 1
          /\ Rows[i].RAWDP = 2
    /\ \E i \in DOMAIN Rows :
          /\ Rows[i].FAM >= 1
          /\ Rows[i].CONSDP = 1
          /\ Rows[i].RAWDP = 2

\* C4: at a column and for f >= 1, an allele is counted at most once for
\* every family bucket in which no allele has a higher count, so a family
\* adds at most 1 to the consensus counts and an allele that lost in a
\* bucket gets nothing from it.
C4_OneVotePerFamily ==
    \A f \in DOMAIN cons_data : f >= 1 =>
        \A pos \in DOMAIN cons_data[f] :
            LET families == collapsed[f].consensus_seq[pos]["families"]
                cons_info == cons_data[f][pos].cons_info
                top(family) ==
                    {families[family][i][1] : i \in
                        {i \in DOMAIN families[family] :
                            \A j \in DOMAIN families[family] :
                                families[family][j][2] <= families[family][i][2]}}
            IN /\ \A allele \in DOMAIN cons_info :
                      cons_info[allele] <=
                          Cardinality({family \in DOMAIN families :
                                          allele \in top(family)})
               /\ cons_data[f][pos].stats.consdp <= Cardinality(DOMAIN families)

\* A family bucket holding two observations gave one vote.
C4_Witness ==
    \E f \in DOMAIN cons_data : f >= 1 /\
        \E pos \in DOMAIN cons_data[f] :
            LET families == collapsed[f].consensus_seq[pos]["families"]
            IN /\ DOMAIN families # {}
               /\ \A family \in DOMAIN families : BucketSum(families[family]) = 2
               /\ cons_data[f][pos].stats.consdp = Cardinality(DOMAIN families)

\* C6: when several alleles share the highest count of a family bucket and
\* the bucket passes the thresholds, the allele counted for the family is
\* the first of them in the order of the allele strings (the bases compared
\* by their character codes, a prefix before its extensions, the reference
\* string before the alternative), whatever the order of the reads in the
\* column.
C6_TieByAlleleOrder ==
    LET Ord == ("A" :> 65) @@ ("C" :> 67) @@ ("G" :> 71) @@ ("N" :> 78) @@
               ("T" :> 84)
        RECURSIVE StrLess(_, _)
        StrLess(s, t) ==
            IF t = "" THEN FALSE
            ELSE IF s = "" THEN TRUE
            ELSE IF Index(s, 0) # Index(t, 0)
                 THEN Ord[Index(s, 0)] < Ord[Index(t, 0)]
            ELSE StrLess(SubSeq(s, 2, Len(s)), SubSeq(t, 2, Len(t)))
        AlleleLess(a, b) ==
            StrLess(a[1], b[1]) \/ (a[1] = b[1] /\ StrLess(a[2], b[2]))
    IN
    \A f \in DOMAIN cons_data : f >= 1 =>
        \A pos \in DOMAIN cons_data[f] :
            LET families == collapsed[f].consensus_seq[pos]["families"]
            IN \A family \in DOMAIN families :
                 LET bucket == families[family]
                     tied == {i \in DOMAIN bucket :
                                \A j \in DOMAIN bucket : bucket[j][2] <= bucket[i][2]}
                     first == CHOOSE i \in tied :
                                \A j \in tied \ {i} :
                                    AlleleLess(bucket[i][1], bucket[j][1])
                 IN (Cardinality(tied) >= 2 /\
                     bucket[first][2] * 100 >=
                         consensus_threshold * BucketSum(bucket) /\
                     bucket[first][2] >= count_threshold) =>
                        bucket[first][1] \in DOMAIN cons_data[f][pos].cons_info

\* C10: when the only read of the pileup is a read with an insertion at a
\* column of the region, the table has the uncollapsed row of that column,
\* with I = 1, REF the reference base and A = C = G = T = 0.
C10_InsertionOnlyRow ==
    (pc = "done" /\ nreads = 1) =>
        \A pos \in DOMAIN uncollapsed.uncollapsed_seq :
            LET at_pos == uncollapsed.uncollapsed_seq[pos]
            IN ("alleles" \in DOMAIN at_pos /\
                \A allele \in DOMAIN at_pos["alleles"] :
                    Len(allele[1]) = 1 /\ Len(allele[2]) > 1) =>
                  \E i \in DOMAIN Rows :
                     /\ Rows[i].FAM = 0
                     /\ Rows[i].POS = pos + 1
                     /\ Rows[i].REF = Index(ref_seq, pos - region_start)
                     /\ Rows[i].I = 1
                     /\ Rows[i].A = 0 /\ Rows[i].C = 0
                     /\ Rows[i].G = 0 /\ Rows[i].T = 0


----------------------------------------------------------------------------
(* One pileup read in the loop bodies of get_consensus_seq (family size 1) *)
(* and get_uncollapsed_seq, as the first read the walk processes or after  *)
(* a read aligned without indel at the same column.                        *)

\* The locals of get_uncollapsed_seq on entering the first column.
NoRead == [uncollapsed_seq |-> <<>>, covArray |-> <<>>, read_count |-> 0,
           bound |-> FALSE, raised |-> ""]

\* The locals of both walks before the read: nothing processed yet, or one
\* read of family AAA processed at the column.
LocalsBefore(is_first, pos) ==
    IF is_first THEN [collapsed |-> NoObservation, uncollapsed |-> NoRead]
    ELSE [collapsed |-> consensus_read(NoObservation, 1, pos, AlignedRead("AAA", 0)),
          uncollapsed |-> uncollapsed_read(NoRead, pos, AlignedRead("AAA", 0))]

ReadInit ==
    /\ family_sizes = <<>>
    /\ pos_threshold \in {0, 1}
    /\ consensus_threshold = 0
    /\ count_threshold = 0
    /\ truncate = FALSE
    /\ \E pos \in region_start..(region_end - 1) : \E read \in PileupReads :
         \E is_first \in BOOLEAN :
            call = [pos |-> pos, read |-> read, is_first |-> is_first,
                    before |-> LocalsBefore(is_first, pos)]
    /\ ret = <<>>
    /\ RunIdle

\* The body of "for read in pileupcolumn.pileups" of both walks on the read.
ProcessRead ==
    /\ ret = <<>>
    /\ ret' = <<[collapsed |-> consensus_read(call.before.collapsed, 1,
                                              call.pos, call.read),
                 uncollapsed |-> uncollapsed_read(call.before.uncollapsed,
                                                   call.pos, call.read)]>>
    /\ UNCHANGED <<call, args_vars, pileup_vars, out_vars, worker_vars, vcf>>

ReadNext == ProcessRead

SpecRead == ReadInit /\ [][ReadNext]_vars


----------------------------------------------------------------------------
(* Claims on one pileup read, under SpecRead.                              *)

\* C11: a read reporting a deletion of length k after a column of the
\* region (read.indel = -k, the column's own base aligned) is recorded in
\* the uncollapsed tally, and in the bucket of its family when it has one,
\* as an allele whose reference string has k + 1 bases and whose observed
\* string has 1 base, an allele the consensus table counts under D; so too
\* when the column is less than k positions before the region end.
C11_DeletionAllele ==
    (/\ ret # <<>>
     /\ call.read \in PrimaryReads
     /\ ~call.read.is_del /\ ~call.read.is_refskip
     /\ call.read.indel < 0) =>
        LET k == Abs(call.read.indel)
            before == call.before.uncollapsed.uncollapsed_seq
            after == ret[1].uncollapsed.uncollapsed_seq
            old == IF call.pos \in DOMAIN before
                   THEN before[call.pos]["alleles"] ELSE <<>>
            recorded == {a \in DOMAIN after[call.pos]["alleles"] :
                            \/ a \notin DOMAIN old
                            \/ after[call.pos]["alleles"][a] > old[a]}
            buckets == IF call.pos \in DOMAIN ret[1].collapsed.consensus_seq
                       THEN ret[1].collapsed.consensus_seq[call.pos]["families"]
                       ELSE <<>>
            deletion(a) == /\ Len(a[1]) = k + 1
                           /\ Len(a[2]) = 1
                           /\ count_key(a) = "D"
        IN /\ ret[1].uncollapsed.raised = ""
           /\ Cardinality(recorded) = 1
           /\ \A a \in recorded :
                 /\ deletion(a)
                 /\ \A family \in DOMAIN buckets :
                       call.is_first =>
                          \A i \in DOMAIN buckets[family] :
                             buckets[family][i][1] = a

\* C12: a mapped read with is_del or is_refskip set at the column adds no
\* allele to the collapsed or to the uncollapsed tally of the column, and
\* neither walk raises on it, whatever its indel value and whether or not
\* it is the first read processed.
C12_DeletedBaseSkipped ==
    (/\ ret # <<>>
     /\ call.read \in PrimaryReads
     /\ call.read.is_del \/ call.read.is_refskip) =>
        /\ ret[1].collapsed.raised = ""
        /\ ret[1].uncollapsed.raised = ""
        /\ ret[1].collapsed.consensus_seq = call.before.collapsed.consensus_seq
        /\ ret[1].uncollapsed.uncollapsed_seq =
              call.before.uncollapsed.uncollapsed_seq

\* C16: every mapped, primary, non-supplementary read that is neither
\* is_del nor is_refskip at the column adds one to the uncollapsed count of
\* its allele at the column, whether or not its umi is in umi_families,
\* within pos_threshold of a family or in a family of the size asked for;
\* so the depth of the column grows by one.
C16_UncollapsedIgnoresIndex ==
    (/\ ret # <<>>
     /\ call.read \in PrimaryReads
     /\ ~call.read.is_del /\ ~call.read.is_refskip) =>
        LET before == call.before.uncollapsed.uncollapsed_seq
            after == ret[1].uncollapsed.uncollapsed_seq
            old == IF call.pos \in DOMAIN before
                   THEN before[call.pos]["alleles"] ELSE <<>>
        IN /\ ret[1].uncollapsed.raised = ""
           /\ call.pos \in DOMAIN after
           /\ SumOver(after[call.pos]["alleles"],
                      DOMAIN after[call.pos]["alleles"]) =
                 SumOver(old, DOMAIN old) + 1
           /\ ret[1].uncollapsed.read_count =
                 call.before.uncollapsed.read_count + 1

\* A read whose umi is not in umi_families left nothing in the collapsed
\* tally and was counted in the uncollapsed one.
C16_Witness ==
    /\ ret # <<>>
    /\ call.read \in PrimaryReads
    /\ ~call.read.is_del /\ ~call.read.is_refskip
    /\ call.read.umis = <<"TTT">>
    /\ ret[1].collapsed = call.before.collapsed
    /\ ret[1].uncollapsed.uncollapsed_seq #
          call.before.uncollapsed.uncollapsed_seq


----------------------------------------------------------------------------
(* Claims on the consensus table, under Spec.                              *)

\* C13: the rows of the consensus table come in ascending position and, at
\* one position, in ascending family size, no (position, family size) pair
\* twice; when the table is written to its end, it has the row of every
\* position of a view under the family size of that view.
C13_RowsSorted ==
    /\ \A i, j \in DOMAIN Rows :
          i < j => \/ Rows[i].POS < Rows[j].POS
                   \/ Rows[i].POS = Rows[j].POS /\ Rows[i].FAM < Rows[j].FAM
    /\ (pc = "done" /\ exception = "") =>
          \A f \in DOMAIN cons_data : \A pos \in DOMAIN cons_data[f] :
              Cardinality({i \in DOMAIN Rows :
                              Rows[i].POS = pos + 1 /\ Rows[i].FAM = f}) = 1

\* A table written to its end with two positions under two family sizes.
C13_Witness ==
    /\ pc = "done" /\ exception = ""
    /\ Len(Rows) >= 4
    /\ \E i, j \in DOMAIN Rows : Rows[i].POS # Rows[j].POS
    /\ \E i, j \in DOMAIN Rows : Rows[i].FAM # Rows[j].FAM


\* C14: for the region chr1:s-e, s = region_start + 1 and e = region_end,
\* every row has s <= POS <= e; the walks record nothing at a column before
\* 0-based s - 1 or from 0-based e on; and a column at 0-based p that the
\* walks record is written with POS = p + 1, the 1-based position of its
\* base in the reference, so the columns s - 1 and e - 1 are included.
C14_RegionBounds ==
    /\ \A i \in DOMAIN Rows :
          region_start + 1 <= Rows[i].POS /\ Rows[i].POS <= region_end
    /\ pc # "idle" =>
          /\ DOMAIN uncollapsed.uncollapsed_seq \subseteq
                region_start..(region_end - 1)
          /\ \A f \in DOMAIN collapsed :
                DOMAIN collapsed[f].consensus_seq \subseteq
                   region_start..(region_end - 1)
    /\ (pc = "done" /\ exception = "") =>
          \A pos \in DOMAIN uncollapsed.uncollapsed_seq :
             \E i \in DOMAIN Rows :
                /\ Rows[i].FAM = 0
                /\ Rows[i].POS = pos + 1
                /\ Rows[i].REF = SubSeq(Reference, Rows[i].POS, Rows[i].POS)

\* The pileup went on to the column at 0-based e, and the table has rows for
\* POS = s and POS = e.
C14_Witness ==
    /\ pc = "done" /\ exception = ""
    /\ column = <<region_end>>
    /\ \E i \in DOMAIN Rows : Rows[i].POS = region_start + 1
    /\ \E i \in DOMAIN Rows : Rows[i].POS = region_end


\* C15: whether or not 0 is among the family sizes given, a run that ends
\* without exception has computed the uncollapsed view from the pileup
\* alone, has written the FAM = 0 row of each of its positions, and has
\* appended the coverage of the region, the mean of the read counts of its
\* columns, to the coverage statistics.
C15_UncollapsedAlways ==
    (pc = "done" /\ exception = "") =>
        /\ 0 \in DOMAIN cons_data
        /\ cons_data[0] = generate_uncollapsed(uncollapsed).cons_data
        /\ \A pos \in DOMAIN uncollapsed.uncollapsed_seq :
              \E i \in DOMAIN Rows : Rows[i].FAM = 0 /\ Rows[i].POS = pos + 1
        /\ Len(covstats) = 1
        /\ covstats[1].region = <<contig, region_start + 1, region_end>>
        /\ covstats[1].coverage = coverage_of(uncollapsed.covArray)

\* A run with the family sizes 2,1 wrote a FAM = 0 row and a coverage
\* above 0.
C15_Witness ==
    /\ pc = "done" /\ exception = ""
    /\ \A i \in DOMAIN family_sizes : family_sizes[i] # 0
    /\ \E i \in DOMAIN Rows : Rows[i].FAM = 0
    /\ covstats # <<>>
    /\ covstats[1].coverage.num > 0


----------------------------------------------------------------------------
(* get_consensus_seq on the reads of one column, then generate_consensus   *)
(* on what it returns: the family sizes recorded for the column.           *)

MaxColumnReads == 2

\* The reads of the column at the last position of the region: reads of
\* the umis of umi_families aligned without indel, starting at or before
\* the column.
ColumnReads ==
    UNION {[1..n -> {AlignedRead(umi, start_pos) :
                        umi \in DOMAIN umi_families,
                        start_pos \in 0..(region_end - 1)}] :
           n \in 1..MaxColumnReads}

RECURSIVE consensus_reads(_, _, _, _)
\* "for read in pileupcolumn.pileups" of get_consensus_seq over the reads.
consensus_reads(v, fam_size, pos, reads) ==
    IF reads = <<>> THEN v
    ELSE consensus_reads(consensus_read(v, fam_size, pos, Head(reads)),
                         fam_size, pos, Tail(reads))

ColumnInit ==
    /\ family_sizes = <<>>
    /\ pos_threshold \in 0..MaxP
    /\ consensus_threshold = 0
    /\ count_threshold = 0
    /\ truncate = FALSE
    /\ call \in [pos : {region_end - 1}, fam_size : {1}, reads : ColumnReads]
    /\ ret = <<>>
    /\ RunIdle

\* generate_consensus for the family size on the pileup of the column.
GenerateConsensus ==
    /\ ret = <<>>
    /\ \E v \in {consensus_reads(NoObservation, call.fam_size, call.pos,
                                 call.reads)} :
          ret' = <<[consensus_seq |-> v.consensus_seq,
                    result |-> generate_consensus(v)]>>
    /\ UNCHANGED <<call, args_vars, pileup_vars, out_vars, worker_vars, vcf>>

ColumnNext == GenerateConsensus

SpecColumn == ColumnInit /\ [][ColumnNext]_vars

\* C17: the min_fam and mean_fam of a position are the minimum and the
\* mean of the counts of the families whose reads are tallied at the
\* position, every family (parent, anchor position) taken once, however
\* many of its reads are there and wherever they start.
C17_FamilySizesOncePerFamily ==
    (ret # <<>> /\ ret[1].result.raised = "") =>
        \A pos \in DOMAIN ret[1].result.cons_data :
            LET keys == DOMAIN ret[1].consensus_seq[pos]["families"]
                size == [key \in keys |->
                           LET fam == CHOOSE umi \in DOMAIN umi_families :
                                        \E i \in DOMAIN umi_families[umi].positions :
                                           umi_families[umi].parent \o
                                           ToString(umi_families[umi].positions[i].pos)
                                              = key
                               i == CHOOSE i \in DOMAIN umi_families[fam].positions :
                                        umi_families[fam].parent \o
                                        ToString(umi_families[fam].positions[i].pos)
                                           = key
                           IN umi_families[fam].positions[i].count]
                stats == ret[1].result.cons_data[pos].stats
            IN /\ stats.min_fam = Min({size[key] : key \in keys})
               /\ stats.mean_fam.num * Cardinality(keys) =
                     SumOver(size, keys) * stats.mean_fam.den


----------------------------------------------------------------------------
(* Several workers, one per region, in generate_consensus_output against   *)
(* one output directory: the end of the function, from the consensus table *)
(* to the entry appended to Stats/CoverageStats.yml.  Each worker is a     *)
(* process of its own; the steps of different workers interleave freely.   *)

MaxWorkers == 2

Workers == 1..MaxWorkers

\* The coverage arrays a worker may have computed for its region.
WorkerCovArrays == {<<>>, <<1>>, <<2, 1>>}

\* covdata = {contig + ':' + str(region_start+1) + '-' + str(region_end): coverage}
covdata(w) ==
    [region |-> procs[w].region, coverage |-> procs[w].coverage]

\* Every worker has computed its views and is about to write its table.
\* The Stats directory may or may not exist yet.
WorkersInit ==
    /\ call = <<>>
    /\ ret = <<>>
    /\ ArgsIdle
    /\ pc = "idle"
    /\ column = <<>>
    /\ nreads = 0
    /\ collapsed = <<>>
    /\ uncollapsed = <<>>
    /\ cons_data = <<>>
    /\ consfile = <<>>
    /\ covstats = <<>>
    /\ exception = ""
    /\ \E cov \in [Workers -> WorkerCovArrays] :
         procs = [w \in Workers |->
                    [pc |-> "table",
                     region |-> <<contig, w, w + 1>>,
                     coverage |-> coverage_of(cov[w]),
                     table |-> FALSE,
                     buffer |-> <<>>]]
    /\ StatsDir \in BOOLEAN
    /\ vcf = <<>>

\* raw_table_output: the worker writes the consensus file of its own region.
WriteTable(w) ==
    /\ procs[w].pc = "table"
    /\ procs' = [procs EXCEPT ![w].pc = "isdir", ![w].table = TRUE]
    /\ UNCHANGED <<pure_vars, args_vars, pileup_vars, out_vars, StatsDir, vcf>>

\* if os.path.isdir(StatsDir) == False:
IsDir(w) ==
    /\ procs[w].pc = "isdir"
    /\ procs' = [procs EXCEPT ![w].pc = IF StatsDir THEN "open" ELSE "mkdir"]
    /\ UNCHANGED <<pure_vars, args_vars, pileup_vars, out_vars, StatsDir, vcf>>

\* os.mkdir(StatsDir): FileExistsError when the directory exists by now.
MkDir(w) ==
    /\ procs[w].pc = "mkdir"
    /\ procs' = [procs EXCEPT ![w].pc = IF StatsDir THEN "FileExistsError" ELSE "open"]
    /\ StatsDir' = TRUE
    /\ UNCHANGED <<pure_vars, args_vars, pileup_vars, out_vars, vcf>>

\* open(os.path.join(StatsDir, 'CoverageStats.yml'), 'a'): the file keeps
\* what it holds.
Open(w) ==
    /\ procs[w].pc = "open"
    /\ procs' = [procs EXCEPT ![w].pc = "dump"]
    /\ UNCHANGED <<pure_vars, args_vars, pileup_vars, out_vars, StatsDir, vcf>>

\* yaml.dump(covdata, newfile): the entry goes to the buffer of the file
\* object, which is far from full.
Dump(w) ==
    /\ procs[w].pc = "dump"
    /\ procs' = [procs EXCEPT ![w].pc = "close", ![w].buffer = <<covdata(w)>>]
    /\ UNCHANGED <<pure_vars, args_vars, pileup_vars, out_vars, StatsDir, vcf>>

\* The end of the with block: the buffer is flushed by one write in append
\* mode, which puts it whole at the end of the file.
Close(w) ==
    /\ procs[w].pc = "close"
    /\ covstats' = covstats \o procs[w].buffer
    /\ procs' = [procs EXCEPT ![w].pc = "returned", ![w].buffer = <<>>]
    /\ UNCHANGED <<pure_vars, args_vars, pileup_vars, cons_data, consfile,
                   exception, StatsDir, vcf>>

WorkersNext ==
    \E w \in Workers :
        \/ WriteTable(w)
        \/ IsDir(w)
        \/ MkDir(w)
        \/ Open(w)
        \/ Dump(w)
        \/ Close(w)

SpecWorkers == WorkersInit /\ [][WorkersNext]_vars

----------------------------------------------------------------------------
(* The collapse step run again for the same region, the same thresholds    *)
(* and the same output directory: the locals start afresh, the files of    *)
(* the earlier runs are on disk.                                           *)

MaxRuns == 2

\* The reads of the alignment file: primary reads of umi AAA without indel.
RerunReads ==
    {r \in PrimaryReads :
        r.umis = <<"AAA">> /\ ~r.is_del /\ ~r.is_refskip /\ r.indel = 0}

RerunInit ==
    /\ Init
    /\ family_sizes = <<0, 1>>
    /\ consensus_threshold = 50
    /\ count_threshold = 1

\* generate_consensus_output is called again after a run that ended.
Rerun ==
    /\ pc = "done"
    /\ Len(covstats) < MaxRuns
    /\ pc' = "pileup"
    /\ column' = <<>>
    /\ nreads' = 0
    /\ collapsed' = [f \in CollapsedSizes(family_sizes) |->
                       [consensus_seq |-> <<>>, FamSize |-> <<>>, raised |-> ""]]
    /\ uncollapsed' = [uncollapsed_seq |-> <<>>, covArray |-> <<>>,
                       read_count |-> 0, bound |-> FALSE, raised |-> ""]
    /\ cons_data' = <<>>
    /\ exception' = ""
    /\ UNCHANGED <<pure_vars, args_vars, consfile, covstats, worker_vars, vcf>>

RerunNext ==
    \/ \E p \in ColumnPositions(truncate) : PileupColumn(p)
    \/ \E read \in RerunReads : PileupRead(read)
    \/ Output
    \/ Rerun

SpecRerun == RerunInit /\ [][RerunNext]_vars

\* C19: after a run of the collapse step that ended without exception, the
\* first or a later one, the consensus file of the region holds the header
\* and the rows of that run and nothing else; a run that computes the table
\* the file holds already leaves the file as it was.
C19_RerunOverwrites ==
    (pc = "done" /\ exception = "") =>
        /\ consfile = raw_table_output(cons_data).lines
        /\ consfile[1] = Header
        /\ \A i, j \in 2..Len(consfile) :
             i # j => <<consfile[i].POS, consfile[i].FAM>> #
                      <<consfile[j].POS, consfile[j].FAM>>

\* A second run has written rows over the rows of the first run.
C19_Witness ==
    /\ pc = "done"
    /\ exception = ""
    /\ Len(covstats) = 2
    /\ Len(consfile) > 1


----------------------------------------------------------------------------
(* GetThresholds of src/utilities.py.  A Python int n is the record        *)
(* [type |-> "int", num |-> n, den |-> 1], a float is the record of type   *)
(* "float" with the fraction num/den it holds; an optional value is <<>>   *)
(* (None, or no such key) or <<value>>.                                    *)

MaxThreshold == 2

PyInt(n) == [type |-> "int", num |-> n, den |-> 1]
PyFloat(n, d) == [type |-> "float", num |-> n, den |-> d]

\* a == b on Python numbers
NumEq(a, b) == a.num * b.den = b.num * a.den

Digits == "0123456789"

IsDigit(c) == \E d \in 1..10 : SubSeq(Digits, d, d) = c

DigitVal(c) == (CHOOSE d \in 1..10 : SubSeq(Digits, d, d) = c) - 1

RECURSIVE Decimal(_)
\* The number written by a string of digits.
Decimal(s) ==
    IF Len(s) = 0 THEN 0
    ELSE 10 * Decimal(SubSeq(s, 1, Len(s) - 1)) + DigitVal(SubSeq(s, Len(s), Len(s)))

RECURSIVE Pow10(_)
Pow10(n) == IF n = 0 THEN 1 ELSE 10 * Pow10(n - 1)

AllDigits(s) == \A i \in 1..Len(s) : IsDigit(SubSeq(s, i, i))

\* int(s) of a string: <<>> when it raises ValueError.
int_of_str(s) ==
    IF Len(s) > 0 /\ AllDigits(s) THEN <<PyInt(Decimal(s))>> ELSE <<>>

\* float(s) of a string: digits, with at most one point among them.
float_of_str(s) ==
    LET points == {i \in 1..Len(s) : SubSeq(s, i, i) = "."}
    IN IF points = {}
       THEN IF Len(s) > 0 /\ AllDigits(s) THEN <<PyFloat(Decimal(s), 1)>> ELSE <<>>
       ELSE LET i == CHOOSE p \in points : TRUE
                whole == SubSeq(s, 1, i - 1)
                frac == SubSeq(s, i + 1, Len(s))
            IN IF Cardinality(points) = 1 /\ Len(whole) + Len(frac) > 0 /\
                  AllDigits(whole) /\ AllDigits(frac)
               THEN <<PyFloat(Decimal(whole \o frac), Pow10(Len(frac)))>>
               ELSE <<>>

\* float(threshold) of the value of the command line: None raises TypeError.
float_of_arg(threshold) ==
    IF threshold = <<>> THEN <<>>
    ELSE <<PyFloat(threshold[1].num, threshold[1].den)>>

\* The integer thresholds, the float thresholds, and two names that
\* debarcer.py passes and GetThresholds does not know.
IntParameters == {"umi_family_pos_threshold", "umi_edit_distance_threshold"}
FloatParameters == {"percent_consensus_threshold", "count_consensus_threshold",
                    "percent_ref_threshold", "percent_allele_threshold"}
OtherParameters == {"percent_alt_threshold", "filter_threshold"}

\* The section of the config file where a parameter is read.
Level(parameter) ==
    IF parameter \in {"umi_family_pos_threshold", "umi_edit_distance_threshold",
                      "percent_consensus_threshold", "count_consensus_threshold"}
    THEN "SETTINGS"
    ELSE "REPORT"

\* config[Level][parameter]: <<>> when the section or the key is missing.
config_get(config, level, parameter) ==
    IF level \notin DOMAIN config THEN <<>>
    ELSE IF parameter \notin DOMAIN config[level] THEN <<>>
    ELSE <<config[level][parameter]>>

\* The value of the config file when the conversion of its type accepts it,
\* else float(threshold) of the command line value, for either type.  The
\* finally clause reads ThresholdVal, which is unbound when both conversions
\* raised; no branch assigns it for a parameter of neither list.
GetThresholds(config, parameter, threshold) ==
    LET entry == config_get(config, Level(parameter), parameter)
        wanted == IF parameter \in IntParameters THEN "int" ELSE "float"
        parsed == IF entry = <<>> THEN <<>>
                  ELSE IF parameter \in IntParameters THEN int_of_str(entry[1])
                  ELSE float_of_str(entry[1])
        ThresholdVal == IF parsed # <<>> THEN parsed ELSE float_of_arg(threshold)
    IN IF parameter \notin IntParameters \cup FloatParameters
       THEN [raised |-> "UnboundLocalError"]
       ELSE IF ThresholdVal = <<>> THEN [raised |-> "UnboundLocalError"]
       ELSE IF ThresholdVal[1].type # wanted THEN [raised |-> "ValueError"]
       ELSE [raised |-> "", value |-> ThresholdVal[1]]

\* What the config file may say about a parameter.
ConfigValues == {"1", "10", "1.5", "", "x"}

\* The values argparse hands over: None, an int or a float.
ArgValues ==
    {<<>>} \cup {<<PyInt(n)>> : n \in 0..MaxThreshold}
           \cup {<<PyFloat(n, 2)>> : n \in 0..MaxThreshold}

ThresholdsInit ==
    /\ \E parameter \in IntParameters \cup FloatParameters \cup OtherParameters,
          entry \in {<<>>} \cup {<<v>> : v \in ConfigValues},
          threshold \in ArgValues :
         call = [parameter |-> parameter,
                 config |-> IF entry = <<>> THEN <<>>
                            ELSE Level(parameter) :> (parameter :> entry[1]),
                 threshold |-> threshold]
    /\ ret = <<>>
    /\ EngineIdle

GetThresholdsCall ==
    /\ ret = <<>>
    /\ ret' = <<GetThresholds(call.config, call.parameter, call.threshold)>>
    /\ UNCHANGED <<call, args_vars, pileup_vars, out_vars, worker_vars, vcf>>

ThresholdsNext == GetThresholdsCall

SpecThresholds == ThresholdsInit /\ [][ThresholdsNext]_vars

\* C20: for an integer or a float threshold, GetThresholds returns the
\* number the config file gives for the parameter when it gives one, and
\* the value of the command line when the config file has no such key and
\* the command line has a value.
C20_ConfigThenCommandLine ==
    (ret # <<>> /\ call.parameter \in IntParameters \cup FloatParameters) =>
        LET entry == config_get(call.config, Level(call.parameter), call.parameter)
            number == IF entry = <<>> THEN <<>>
                      ELSE IF call.parameter \in IntParameters
                      THEN int_of_str(entry[1])
                      ELSE float_of_str(entry[1])
        IN /\ number # <<>> =>
                ret[1].raised = "" /\ NumEq(ret[1].value, number[1])
           /\ (entry = <<>> /\ call.threshold # <<>>) =>
                ret[1].raised = "" /\ NumEq(ret[1].value, call.threshold[1])


\* C21: for each of the seven threshold keys the commands request,
\* GetThresholds returns a number and does not raise whenever the config
\* file gives a number of the type of the key or the command line gives a
\* value.
C21_EveryKeyReturns ==
    ret # <<>> =>
        LET parameter == call.parameter
            integer == parameter \in IntParameters \cup {"filter_threshold"}
            entry == config_get(call.config, Level(parameter), parameter)
            supplied == \/ call.threshold # <<>>
                        \/ /\ entry # <<>>
                           /\ IF integer THEN int_of_str(entry[1]) # <<>>
                              ELSE float_of_str(entry[1]) # <<>>
        IN (parameter # "percent_allele_threshold" /\ supplied) =>
               ret[1].raised = ""

\* C28: with no key of the parameter in the config file and no value on the
\* command line, GetThresholds raises the ValueError of its except clause
\* ('ERR: Missing setting threshold').
C28_MissingThreshold ==
    (/\ ret # <<>>
     /\ call.parameter \in IntParameters \cup FloatParameters
     /\ config_get(call.config, Level(call.parameter), call.parameter) = <<>>
     /\ call.threshold = <<>>) =>
        ret[1].raised = "ValueError"


----------------------------------------------------------------------------
(* CheckRegionFormat of src/utilities.py, on region strings put together   *)
(* from a contig, a start and an end, the separators and a tail.           *)

RECURSIVE split(_, _)
\* s.split(sep) for a separator of one character.
split(s, sep) ==
    LET hits == {i \in 1..Len(s) : SubSeq(s, i, i) = sep}
    IN IF hits = {} THEN <<s>>
       ELSE LET i == CHOOSE h \in hits : \A k \in hits : h <= k
            IN <<SubSeq(s, 1, i - 1)>> \o split(SubSeq(s, i + 1, Len(s)), sep)

\* "" when the function returns, else the exception it raises.
CheckRegionFormat(region) ==
    LET in(sub, s) == \E i \in 1..(Len(s) - Len(sub) + 1) :
                          SubSeq(s, i, i + Len(sub) - 1) = sub
        isnumeric(s) == Len(s) > 0 /\ AllDigits(s)
        chromos == {ToString(i) : i \in 0..22} \cup {"X", "Y"}
        contig_of == split(region, ":")[1]
        coords == split(split(region, ":")[2], "-")
    IN IF \E i \in {"chr", ":", "-"} : ~in(i, region) THEN "ValueError"
       ELSE IF Slice(contig_of, 0, 3) # "chr" /\
               Slice(contig_of, 3, Len(contig_of)) \notin chromos
       THEN "ValueError"
       ELSE IF Len(coords) < 2 THEN "IndexError"
       ELSE IF ~isnumeric(coords[1]) \/ ~isnumeric(coords[2]) THEN "ValueError"
       ELSE ""

\* The region of the command line, in parts.
RegionArgs ==
    [contig : {"chr1", "chrX", "chr99", "1", "abc1", "chr-1"},
     colon : {":", ""},
     start : {"1", "x", ""},
     dash : {"-", ""},
     end : {"250", "y"},
     tail : {"", ":chr", "-3"}]

region_of(r) == r.contig \o r.colon \o r.start \o r.dash \o r.end \o r.tail

RegionInit ==
    /\ call \in RegionArgs
    /\ ret = <<>>
    /\ EngineIdle

CheckRegion ==
    /\ ret = <<>>
    /\ ret' = <<CheckRegionFormat(region_of(call))>>
    /\ UNCHANGED <<call, args_vars, pileup_vars, out_vars, worker_vars, vcf>>

RegionNext == CheckRegion

SpecRegion == RegionInit /\ [][RegionNext]_vars

\* C22: CheckRegionFormat returns for the regions chrN:start-end, N a
\* chromosome name, start and end numeric, and raises ValueError, never
\* another exception, for every other string.
C22_RegionRejected ==
    ret # <<>> =>
        LET region == region_of(call)
            parts == split(region, ":")
            coords == split(parts[2], "-")
            names == {"chr" \o ToString(i) : i \in 1..22} \cup {"chrX", "chrY"}
            well_formed ==
                /\ Len(parts) = 2
                /\ parts[1] \in names
                /\ Len(coords) = 2
                /\ \A i \in 1..2 : Len(coords[i]) > 0 /\ AllDigits(coords[i])
        IN ret[1] = IF well_formed THEN "" ELSE "ValueError"


\* C25: at the end of a run whose views were all computed, every position
\* that has an entry in one view of cons_data has an entry in every view,
\* and raw_table_output does not end on its assertion
\* "pos in cons_data[f_size]".
C25_PositionInEveryView ==
    (pc = "done" /\ DOMAIN cons_data = {0} \cup CollapsedSizes(family_sizes)) =>
        /\ \A f, g \in DOMAIN cons_data : DOMAIN cons_data[f] = DOMAIN cons_data[g]
        /\ exception # "AssertionError"


\* C29: at every position, the raw depth of the view of a family size
\* f >= 1 is at most the raw depth of the uncollapsed view.
C29_CollapsedDepthBelowRaw ==
    (pc = "done" /\ 0 \in DOMAIN cons_data) =>
        \A f \in DOMAIN cons_data \ {0} :
            \A pos \in DOMAIN cons_data[f] \cap DOMAIN cons_data[0] :
                cons_data[f][pos].stats.rawdp <= cons_data[0][pos].stats.rawdp


\* C30: whatever runs of generate_consensus_output took place,
\* CoverageStats.yml has at most one entry of a region key, and when it has
\* an entry of the region the run that just ended wrote the consensus table
\* of the region to its last row.
C30_OneEntryPerKey ==
    /\ \A i, j \in DOMAIN covstats :
          i # j => covstats[i].region # covstats[j].region
    /\ (/\ pc = "done"
        /\ covstats # <<>>
        /\ DOMAIN cons_data = {0} \cup CollapsedSizes(family_sizes)) =>
           raw_table_output(cons_data).raised = ""


----------------------------------------------------------------------------
(* get_vcf_output of src/generate_vcf.py on a consensus file that is not   *)
(* merged.  The fields of a line are held parsed, the eleven parallel      *)
(* lists temp_* as one list of lines indexed by family size, None is <<>>. *)

MaxVcfPos == 2

\* f_sizes=[1,2,5]
f_sizes == <<1, 2, 5>>

\* The consensus files of the positions 1..MaxVcfPos for the family sizes of
\* a collapse run: a row per position and family size, the depth of the
\* reference base, of one other base and of the consensus of each row
\* taken from a few cases.
VcfFiles ==
    LET profiles == {[ref |-> 99, alt |-> 1, consdp |-> 100],
                     [ref |-> 5, alt |-> 12, consdp |-> 17],
                     [ref |-> 3, alt |-> 2, consdp |-> 5]}
        row(pos, f, p) ==
            LET REF == Index(Reference, pos - 1)
                depth(b) == IF b = REF THEN p.ref ELSE IF b = "T" THEN p.alt ELSE 0
            IN [CHROM |-> contig, POS |-> pos, REF |-> REF,
                A |-> depth("A"), C |-> depth("C"), G |-> depth("G"),
                T |-> depth("T"), I |-> 0, D |-> 0, N |-> 0,
                RAWDP |-> p.consdp + f, CONSDP |-> p.consdp, FAM |-> f,
                REF_FREQ |-> Percent(p.ref, p.consdp),
                MEAN_FAM |-> [num |-> f, den |-> 1]]
        file(sizes, pf) ==
            LET n == Len(sizes)
            IN <<Header>> \o
               [k \in 1..(MaxVcfPos * n) |->
                   LET pos == ((k - 1) \div n) + 1
                       f == sizes[((k - 1) % n) + 1]
                   IN row(pos, f, IF f = 0 THEN [ref |-> 3, alt |-> 2, consdp |-> 5]
                                  ELSE pf[<<pos, f>>])]
    IN UNION {{file(sizes, pf) :
                  pf \in [(1..MaxVcfPos) \X {sizes[i] : i \in 2..Len(sizes)} -> profiles]} :
              sizes \in {<<0, 1, 2, 5>>, <<0, 1, 2>>}}

\* The thresholds of the caller, the defaults of the command line, and the
\* consensus file; the function is at its first statement.
VcfInit ==
    /\ call = [ref_threshold |-> 95, alt_threshold |-> 2, filter_threshold |-> 10]
    /\ ret = <<>>
    /\ ArgsIdle
    /\ pc = "idle"
    /\ column = <<>>
    /\ nreads = 0
    /\ collapsed = <<>>
    /\ uncollapsed = <<>>
    /\ cons_data = <<>>
    /\ consfile \in VcfFiles
    /\ covstats = <<>>
    /\ exception = ""
    /\ WorkersIdle
    /\ vcf = [pc |-> "open", line |-> 1, temp |-> <<>>, lists |-> <<>>,
              data |-> <<>>, records |-> <<>>]

\* file.readline() takes the header and next(reader) the line after it.
OpenConsFile ==
    /\ vcf # <<>>
    /\ vcf.pc = "open"
    /\ vcf' = [vcf EXCEPT !.pc = "read", !.line = 3,
                          !.temp = [f \in 0..5 |-> <<>>]]
    /\ UNCHANGED <<pure_vars, args_vars, pileup_vars, out_vars, worker_vars>>

\* One pass of "for line in reader": the line is kept in the slot of its
\* family size, and the slots go to the lists with the line of the largest
\* family size.
ReadLine ==
    /\ vcf # <<>>
    /\ vcf.pc = "read"
    /\ vcf.line <= Len(consfile)
    /\ LET line == consfile[vcf.line]
           fam_size == line.FAM
           kept == FloatLE(line.REF_FREQ, 100) /\
                   \E i \in DOMAIN f_sizes : f_sizes[i] = fam_size
           temp == IF kept THEN [vcf.temp EXCEPT ![fam_size] = <<line>>]
                   ELSE vcf.temp
       IN vcf' = IF kept /\ fam_size = 5
                 THEN [vcf EXCEPT !.line = @ + 1,
                                  !.lists = Append(@, temp),
                                  !.temp = [f \in 0..5 |-> <<>>]]
                 ELSE [vcf EXCEPT !.line = @ + 1, !.temp = temp]
    /\ UNCHANGED <<pure_vars, args_vars, pileup_vars, out_vars, worker_vars>>

\* The body of get_data for one line: the filter, the alternate alleles,
\* the allele depths and frequencies.
get_data(line) ==
    LET bases == <<"A", "C", "G", "T">>
        key(i) == 4 * line[bases[i]] + i
        \* sorted by depth, ties in the order A, C, G, T, then taken from
        \* the last to the first
        sorted_alleles == [k \in 1..4 |->
                             bases[CHOOSE i \in 1..4 :
                                     Cardinality({j \in 1..4 : key(j) > key(i)}) = k - 1]]
        ref_allele == line.REF
        alt(a) == a # ref_allele /\ line[a] # 0
        alts == SelectSeq(sorted_alleles, alt)
    IN [filt |-> IF \E count \in 1..4 : line[sorted_alleles[count]] >= 10
                 THEN "PASS" ELSE "a10",
        alt_string |-> IF alts # <<>> THEN alts ELSE <<"N/A">>,
        AD |-> <<line[ref_allele]>> \o [k \in DOMAIN alts |-> line[alts[k]]],
        AF |-> <<Percent(line[ref_allele], line.CONSDP)>> \o
               [k \in DOMAIN alts |-> Percent(line[alts[k]], line.CONSDP)],
        RDP |-> line.RAWDP, CDP |-> line.CONSDP, MNF |-> line.MEAN_FAM,
        min_fam |-> 1]

\* get_data over the lists, after the last line of the file.
GetData ==
    /\ vcf # <<>>
    /\ vcf.pc = "read"
    /\ vcf.line > Len(consfile)
    /\ vcf' = [vcf EXCEPT !.pc = "write",
                 !.data = [index \in DOMAIN vcf.lists |->
                             [f \in 0..5 |->
                                IF vcf.lists[index][f] = <<>> THEN <<>>
                                ELSE <<get_data(vcf.lists[index][f][1])>>]]]
    /\ UNCHANGED <<pure_vars, args_vars, pileup_vars, out_vars, worker_vars>>

\* write_vcf: the records of the file of each family size.  The name of
\* the files needs the contig of a line of the lists: with no line, contig
\* is unbound and no file is opened.
write_vcf(lists, data) ==
    IF lists = <<>> THEN <<>>
    ELSE
    [f_size \in {f_sizes[i] : i \in DOMAIN f_sizes} |->
        LET filled(index) == lists[index][f_size] # <<>>
            indexes == SelectSeq([index \in DOMAIN lists |-> index], filled)
        IN [k \in DOMAIN indexes |->
              LET line == lists[indexes[k]][f_size][1]
                  d == data[indexes[k]][f_size][1]
              IN [CHROM |-> line.CHROM, POS |-> line.POS, REF |-> line.REF,
                  ALT |-> d.alt_string, FILTER |-> d.filt, MIF |-> d.min_fam,
                  RDP |-> d.RDP, CDP |-> d.CDP, MNF |-> d.MNF,
                  AD |-> d.AD, AF |-> d.AF]]]

WriteVcf ==
    /\ vcf # <<>>
    /\ vcf.pc = "write"
    /\ vcf' = [vcf EXCEPT !.pc = IF vcf.lists = <<>> THEN "UnboundLocalError"
                                 ELSE "done",
                          !.records = write_vcf(vcf.lists, vcf.data)]
    /\ UNCHANGED <<pure_vars, args_vars, pileup_vars, out_vars, worker_vars>>

VcfNext ==
    \/ OpenConsFile
    \/ ReadLine
    \/ GetData
    \/ WriteVcf

SpecVcf == VcfInit /\ [][VcfNext]_vars


\* C23: the FILTER of a record is PASS when an allele other than the REF of
\* its consensus row has a depth of at least filter_threshold, and the tag
\* of the threshold otherwise.
C23_FilterOnAlternate ==
    (vcf # <<>> /\ vcf.pc = "done") =>
        \A f \in DOMAIN vcf.records : \A k \in DOMAIN vcf.records[f] :
            LET r == vcf.records[f][k]
                row == consfile[CHOOSE i \in 2..Len(consfile) :
                                   consfile[i].POS = r.POS /\ consfile[i].FAM = f]
                alt_pass == \E b \in {"A", "C", "G", "T"} \ {row.REF} :
                                row[b] >= call.filter_threshold
            IN r.FILTER = IF alt_pass THEN "PASS" ELSE "a10"

\* C24: every alternate allele of a record has, in the consensus row of the
\* record, a frequency of at least alt_threshold, and the REF_FREQ of the
\* row is at most ref_threshold.
C24_AltAboveThreshold ==
    (vcf # <<>> /\ vcf.pc = "done") =>
        \A f \in DOMAIN vcf.records : \A k \in DOMAIN vcf.records[f] :
            LET r == vcf.records[f][k]
                row == consfile[CHOOSE i \in 2..Len(consfile) :
                                   consfile[i].POS = r.POS /\ consfile[i].FAM = f]
            IN \A a \in DOMAIN r.ALT : r.ALT[a] # "N/A" =>
                  /\ FloatGE(Percent(row[r.ALT[a]], row.CONSDP), call.alt_threshold)
                  /\ FloatLE(row.REF_FREQ, call.ref_threshold)

\* C26: the VCF of each family size f of f_sizes has exactly one record for
\* every row of family size f of the consensus file with REF_FREQ <= 100,
\* and the record has the chromosome, position, REF, depths and statistics
\* of the row.
C26_OneRecordPerRow ==
    (vcf # <<>> /\ vcf.pc \in {"done", "UnboundLocalError"}) =>
        \A f \in {f_sizes[n] : n \in DOMAIN f_sizes} :
            \A i \in 2..Len(consfile) :
                (consfile[i].FAM = f /\ FloatLE(consfile[i].REF_FREQ, 100)) =>
                    f \in DOMAIN vcf.records /\
                    LET row == consfile[i]
                        of_row == {k \in DOMAIN vcf.records[f] :
                                      /\ vcf.records[f][k].CHROM = row.CHROM
                                      /\ vcf.records[f][k].POS = row.POS}
                    IN /\ Cardinality(of_row) = 1
                       /\ \A k \in of_row :
                            LET r == vcf.records[f][k]
                            IN /\ r.REF = row.REF
                               /\ r.AD[1] = row[row.REF]
                               /\ r.RDP = row.RAWDP
                               /\ r.CDP = row.CONSDP
                               /\ r.MNF = row.MEAN_FAM


----------------------------------------------------------------------------
(* FindRegionsCoverage of src/find_regions_coverage.py.  The pileup of the *)
(* contig is the sequence of the depths of its positions 0, 1, ...; a      *)
(* position of depth 0 has no pileup column.                               *)

MaxContig == 5
MaxDepth == 2

\* The dict D of the regions kept, as the sequence D[1], D[2], ...
FindRegionsCoverage(nsegments, min_cov, region_size) ==
    LET RECURSIVE loop(_, _, _)
        \* the columns from index i on, with D and L as the loop left them
        loop(i, D, L) ==
            IF i > Len(nsegments) THEN D
            ELSE LET pos == i - 1
                 IN IF nsegments[i] = 0 \/ nsegments[i] < min_cov
                    THEN loop(i + 1, D, L)
                    ELSE IF Len(L) = 0 THEN loop(i + 1, D, <<pos, pos>>)
                    ELSE IF pos # L[2] + 1
                    THEN IF L[2] + 1 - L[1] >= region_size
                         THEN loop(i + 1, Append(D, L), <<pos, pos>>)
                         ELSE loop(i + 1, D, <<pos, pos>>)
                    ELSE loop(i + 1, D, <<L[1], pos>>)
    IN loop(1, <<>>, <<>>)

CoverageInit ==
    /\ call \in [nsegments : UNION {[1..n -> 0..MaxDepth] : n \in 1..MaxContig},
                 min_cov : 1..MaxDepth,
                 region_size : 1..2]
    /\ ret = <<>>
    /\ EngineIdle

FindRegions ==
    /\ ret = <<>>
    /\ ret' = <<FindRegionsCoverage(call.nsegments, call.min_cov, call.region_size)>>
    /\ UNCHANGED <<call, args_vars, pileup_vars, out_vars, worker_vars, vcf>>

CoverageNext == FindRegions

SpecCoverage == CoverageInit /\ [][CoverageNext]_vars

\* C27: the regions returned are the maximal runs of consecutive positions
\* of depth >= min_cov that are at least region_size long, each of them
\* once, the run that ends with the last column of the contig included.
C27_MaximalRuns ==
    ret # <<>> =>
        LET n == Len(call.nsegments)
            deep(pos) == pos \in 0..(n - 1) /\ call.nsegments[pos + 1] >= call.min_cov
            runs == {r \in (0..(n - 1)) \X (0..(n - 1)) :
                        /\ r[1] <= r[2]
                        /\ \A pos \in r[1]..r[2] : deep(pos)
                        /\ ~deep(r[1] - 1) /\ ~deep(r[2] + 1)
                        /\ r[2] + 1 - r[1] >= call.region_size}
        IN /\ {ret[1][k] : k \in DOMAIN ret[1]} = runs
           /\ Len(ret[1]) = Cardinality(runs)

====
